---- MODULE Spec2Model ----
(***************************************************************************)
(* How2Pay: recurrence engine (models/recurrence.py), weekend adjustment   *)
(* (models/payee.py), cutoff dates (models/schedule_options.py) and the    *)
(* cash-flow scheduler (scheduler/cash_flow.py).                           *)
(*                                                                         *)
(* Dates are proleptic Gregorian ordinals, as datetime.date.toordinal()    *)
(* (0001-01-01 = 1), so that comparison and timedelta arithmetic are the   *)
(* integer ones.  None is NoDate for a date, NoPct for a percentage,       *)
(* NoInterval for a unit and 0 for `every` (the code only tests `every`    *)
(* for truthiness, where None and 0 agree).  Money and percentages are     *)
(* exact rationals <<numerator, denominator>> in lowest terms: the floats  *)
(* of the code up to rounding.                                             *)
(***************************************************************************)
EXTENDS Integers, Sequences, FiniteSets, TLC

VARIABLES
    \* ---- CashFlowScheduler and one call of calculate_proportional_contributions
    state,                    \* StateFile: bills, payees, schedule_options
    projection_start_month,   \* CashFlowScheduler.projection_start_month (0 = None)
    projection_start_year,    \* CashFlowScheduler.projection_start_year  (0 = None)
    start_month,              \* argument start_month
    start_year,               \* argument start_year
    months_ahead,             \* argument months_ahead
    month_offset,             \* loop variable of `for month_offset in range(months_ahead)`
    schedule_items,           \* local list schedule_items
    monthly_bill_totals,      \* local list monthly_bill_totals
    weekend_adjustments,      \* local list weekend_adjustments
    pc,                       \* "idle", "loop" (inside the for loop), "done" (returned)
    \* ---- one Recurrence object and one call of next_due
    rec,                      \* the Recurrence
    after,                    \* argument `after` of the last call
    due,                      \* its result (NoDate = None)
    \* ---- one call of Bill.calculate_payee_shares
    share_bill,               \* the Bill: its share.exclude and share.custom
    share_payees,             \* argument all_payees
    shares,                   \* what the call returned or raised
    \* ---- one call of PaySchedule.get_adjusted_payment_date
    adj_schedule,             \* the PaySchedule
    adj_payment_date,         \* argument payment_date of the last call
    adj_result,               \* its result
    \* ---- one call of a method that answers for a month: Payee.is_active_for_month,
    \* ---- ScheduleOptions.get_cutoff_date, calculate_monthly_bill_total
    query,                    \* the method, its arguments and what it returned
    \* ---- one loop of the scans, run pass by pass: the `while` of
    \* ---- _calculate_monthly_interval, the `for _ in range(max_checks)` of
    \* ---- calculate_monthly_bill_total and of get_payee_income_in_month
    loop                      \* the loop's inputs, its local variables and its position

vars == <<state, projection_start_month, projection_start_year, start_month,
          start_year, months_ahead, month_offset, schedule_items,
          monthly_bill_totals, weekend_adjustments, pc, rec, after, due,
          share_bill, share_payees, shares,
          adj_schedule, adj_payment_date, adj_result, query, loop>>

schedVars == <<state, projection_start_month, projection_start_year, start_month,
               start_year, months_ahead, month_offset, schedule_items,
               monthly_bill_totals, weekend_adjustments, pc>>

recVars == <<rec, after, due>>

shareVars == <<share_bill, share_payees, shares>>

adjVars == <<adj_schedule, adj_payment_date, adj_result>>

queryVars == <<query>>

loopVars == <<loop>>

----------------------------------------------------------------------------
(* None *)

NoDate == 0
NoPct == -1
NoAmount == -3
NoInterval == "none"
NoRecurrence == [kind |-> "none", interval |-> NoInterval, every |-> 0,
                 start |-> NoDate, end |-> NoDate]

----------------------------------------------------------------------------
(* datetime.date and calendar.monthrange *)

IsLeap(y) == (y % 4 = 0) /\ ((y % 100 # 0) \/ (y % 400 = 0))

\* calendar.monthrange(y, m)[1]
monthrange(y, m) ==
    IF m = 2 THEN (IF IsLeap(y) THEN 29 ELSE 28)
    ELSE IF m \in {4, 6, 9, 11} THEN 30 ELSE 31

DaysBeforeYear(y) ==
    LET p == y - 1 IN p * 365 + (p \div 4) - (p \div 100) + (p \div 400)

DaysBeforeMonth(y, m) ==
    <<0, 31, 59, 90, 120, 151, 181, 212, 243, 273, 304, 334>>[m]
    + (IF m > 2 /\ IsLeap(y) THEN 1 ELSE 0)

\* date(y, m, d) succeeds iff the day exists; otherwise it raises ValueError
ValidDate(y, m, d) == m \in 1..12 /\ d >= 1 /\ d <= monthrange(y, m)

\* date(y, m, d).toordinal()
date(y, m, d) == DaysBeforeYear(y) + DaysBeforeMonth(y, m) + d

\* the element of a one-element set: Only({ e(x) : x \in {v} }) is e(v) with the
\* local variable x assigned once, as the code assigns its locals
Only(S) == CHOOSE x \in S : TRUE

\* the month and day of the r1-th day (from 0) of year y
month_day(y, r1, m0) ==
    IF DaysBeforeMonth(y, m0) > r1
    THEN [year |-> y, month |-> m0 - 1, day |-> r1 - DaysBeforeMonth(y, m0 - 1) + 1]
    ELSE [year |-> y, month |-> m0, day |-> r1 - DaysBeforeMonth(y, m0) + 1]

\* day n0 (from 0) of the calendar, split into 400-, 100-, 4- and 1-year cycles
ord2ymd(n400, n100, n4, n1, r1) ==
    IF n1 = 4 \/ n100 = 4
    THEN [year |-> n400 * 400 + n100 * 100 + n4 * 4 + n1, month |-> 12, day |-> 31]
    ELSE month_day(n400 * 400 + 1 + n100 * 100 + n4 * 4 + n1, r1, (r1 + 50) \div 32)

\* date.fromordinal(n) as [year, month, day]
ymd(n) ==
    ord2ymd((n - 1) \div 146097,
            ((n - 1) % 146097) \div 36524,
            (((n - 1) % 146097) % 36524) \div 1461,
            ((((n - 1) % 146097) % 36524) % 1461) \div 365,
            ((((n - 1) % 146097) % 36524) % 1461) % 365)

year_of(n) == ymd(n).year
month_of(n) == ymd(n).month
day_of(n) == ymd(n).day

\* date.weekday(): Monday = 0 ... Sunday = 6
weekday(n) == (n + 6) % 7

----------------------------------------------------------------------------
(* exact rational arithmetic *)

\* math.gcd(a, b) for a, b >= 0, by Euclid's algorithm
RECURSIVE GCD(_, _)
GCD(a, b) == IF b = 0 THEN a ELSE Only({ GCD(b, r) : r \in {a % b} })

Abs(x) == IF x < 0 THEN 0 - x ELSE x

\* the rational n/d in lowest terms with a positive denominator
Rat(n, d) ==
    LET reduced[x \in Int, y \in Int] ==
            IF y < 0 THEN <<(0 - x) \div GCD(Abs(x), Abs(y)), (0 - y) \div GCD(Abs(x), Abs(y))>>
            ELSE <<x \div GCD(Abs(x), Abs(y)), y \div GCD(Abs(x), Abs(y))>>
    IN  reduced[n, d]

R(i) == <<i, 1>>

RAdd(a, b) ==
    LET sum[x \in Int \X Int, y \in Int \X Int] ==
            Rat(x[1] * y[2] + y[1] * x[2], x[2] * y[2])
    IN  sum[a, b]

RSub(a, b) ==
    LET difference[x \in Int \X Int, y \in Int \X Int] ==
            Rat(x[1] * y[2] - y[1] * x[2], x[2] * y[2])
    IN  difference[a, b]

RMul(a, b) ==
    LET product[x \in Int \X Int, y \in Int \X Int] ==
            Rat(x[1] * y[1], x[2] * y[2])
    IN  product[a, b]

RDiv(a, b) ==
    LET quotient[x \in Int \X Int, y \in Int \X Int] ==
            Rat(x[1] * y[2], x[2] * y[1])
    IN  quotient[a, b]

RLt(a, b) == a[1] * b[2] < b[1] * a[2]
RLe(a, b) == a[1] * b[2] <= b[1] * a[2]
RPos(a) == a[1] > 0

----------------------------------------------------------------------------
(* models/recurrence.py *)

\* `while month > 12: month -= 12; year += 1`, as <<month, year>>
RECURSIVE roll_month(_, _)
roll_month(month, year) ==
    IF month > 12 THEN roll_month(month - 12, year + 1) ELSE <<month, year>>

\* try: date(year, month, day) / except ValueError: date(year, month, last_day)
date_or_last_day(year, month, day) ==
    IF ValidDate(year, month, day) THEN date(year, month, day)
    ELSE date(year, month, monthrange(year, month))

\* date(year, month, day) after `while month > 12`, clamped to the month's end
rolled_date(month, year, day) ==
    Only({ date_or_last_day(my[2], my[1], day) : my \in {roll_month(month, year)} })

\* `if self.end and d > self.end: return None`, else d
not_after_end(r, d) == IF r.end # NoDate /\ d > r.end THEN NoDate ELSE d

\* the body of the `while` adding no month: `month = current_date.month`
monthly_interval_step_same_month(r, current_date) == current_date

\* one pass of the body of `while current_date <= base_date` in
\* _calculate_monthly_interval
monthly_interval_step(r, current_date) ==
    Only({ rolled_date(c.month + r.every, c.year, c.day) : c \in {ymd(current_date)} })

RECURSIVE monthly_interval_loop(_, _, _)
monthly_interval_loop(r, current_date, base_date) ==
    IF current_date <= base_date
    THEN Only({ monthly_interval_loop(r, stepped, base_date)
                : stepped \in {monthly_interval_step(r, current_date)} })
    ELSE current_date

\* Recurrence._calculate_monthly_interval(after)
calculate_monthly_interval(r, base_date) ==
    IF base_date <= r.start THEN r.start
    ELSE Only({ not_after_end(r, current_date)
                : current_date \in {monthly_interval_loop(r, r.start, base_date)} })

\* the `while current_date <= base_date` loop of the calendar branch, every > 1
calendar_multi_step(r, current_date) ==
    Only({ rolled_date(c.month + r.every, c.year, c.day) : c \in {ymd(current_date)} })

RECURSIVE calendar_multi_loop(_, _, _)
calendar_multi_loop(r, current_date, base_date) ==
    IF current_date <= base_date
    THEN Only({ calendar_multi_loop(r, stepped, base_date)
                : stepped \in {calendar_multi_step(r, current_date)} })
    ELSE current_date

\* timedelta of one period of an interval recurrence, in days (0: unknown unit)
interval_delta_days(r) ==
    IF r.interval = "daily" THEN r.every
    ELSE IF r.interval = "weekly" THEN 7 * r.every
    ELSE IF r.interval = "quarterly" THEN 91 * r.every
    ELSE IF r.interval = "yearly" THEN 365 * r.every
    ELSE 0

\* lines 78-88 without the `+ 1` of line 84: the last occurrence not after
\* base_date instead of the first one after it
interval_next_date_current(r, base_date, interval_days) ==
    not_after_end(r, r.start + ((base_date - r.start) \div interval_days)
                               * interval_days)

\* lines 78-88: the first date start + k * interval_days after base_date
interval_next_date(r, base_date, interval_days) ==
    not_after_end(r, r.start + (((base_date - r.start) \div interval_days) + 1)
                               * interval_days)

\* the interval branch of next_due
next_due_interval(r, base_date) ==
    IF r.interval = "monthly" THEN calculate_monthly_interval(r, base_date)
    ELSE IF r.interval \notin {"daily", "weekly", "quarterly", "yearly"} THEN NoDate
    ELSE IF base_date <= r.start THEN r.start
    ELSE interval_next_date(r, base_date, interval_delta_days(r))

\* `interval = self.interval or 'monthly'`
calendar_interval(r) == IF r.interval = NoInterval THEN "monthly" ELSE r.interval

\* lines 143-165: the date one period after the month of base_date
calendar_next_period(interval, year, month, day) ==
    IF interval = "quarterly" THEN rolled_date(month + 3, year, day)
    ELSE IF interval = "yearly" THEN rolled_date(month, year + 1, day)
    ELSE rolled_date(month + 1, year, day)

\* lines 122-165: the payment of the month of base_date if it is still to come,
\* else the payment one period later
calendar_single_month(r, base_date, year, month, day, current_month_payment) ==
    IF current_month_payment > base_date
    THEN not_after_end(r, current_month_payment)
    ELSE Only({ not_after_end(r, next_date)
                : next_date \in {calendar_next_period(calendar_interval(r), year,
                                                      month, day)} })

\* the calendar branch of next_due
next_due_calendar(r, base_date) ==
    IF base_date <= r.start THEN r.start
    ELSE IF calendar_interval(r) = "monthly" /\ r.every # 0 /\ r.every > 1
    THEN Only({ not_after_end(r, current_date)
                : current_date \in {calendar_multi_loop(r, r.start, base_date)} })
    ELSE Only({ Only({ calendar_single_month(r, base_date, base.year, base.month,
                                             start.day, current_month_payment)
                       : current_month_payment \in
                             {date_or_last_day(base.year, base.month, start.day)} })
                : base \in {ymd(base_date)}, start \in {ymd(r.start)} })

\* Recurrence.next_due(after), for a given `after` (never None here)
next_due(r, base_date) ==
    IF r.kind = "interval" /\ r.interval # NoInterval /\ r.every # 0 /\ r.start # NoDate
    THEN next_due_interval(r, base_date)
    ELSE IF r.kind = "calendar" /\ r.start # NoDate
    THEN next_due_calendar(r, base_date)
    ELSE NoDate

----------------------------------------------------------------------------
(* models/payee.py, models/schedule_options.py, models/bill.py *)

\* get_adjusted_payment_date without lines 51-58: the date as it is
get_adjusted_payment_date_unadjusted(schedule, payment_date) == payment_date

\* get_adjusted_payment_date moving a weekend date by one day only
get_adjusted_payment_date_one_day(schedule, payment_date) ==
    IF weekday(payment_date) < 5 THEN payment_date
    ELSE IF schedule.weekend_adjustment = "last_working_day" THEN payment_date - 1
    ELSE payment_date + 1

\* PaySchedule.get_adjusted_payment_date(payment_date)
get_adjusted_payment_date(schedule, payment_date) ==
    IF weekday(payment_date) < 5 THEN payment_date
    ELSE IF schedule.weekend_adjustment = "last_working_day"
    THEN payment_date - (weekday(payment_date) - 4)
    ELSE IF schedule.weekend_adjustment = "next_working_day"
    THEN payment_date + (7 - weekday(payment_date))
    ELSE payment_date

\* Payee.is_active_for_month(target_year, target_month)
is_active_for_month(payee, target_year, target_month) ==
    IF payee.start_date = NoDate THEN TRUE
    ELSE payee.start_date <= date(target_year, target_month, 1)

\* get_cutoff_date without the weekend adjustment of lines 39-48
get_cutoff_date_unadjusted(options, month, year) ==
    date(year, month,
         IF options.cutoff_day < monthrange(year, month) THEN options.cutoff_day
         ELSE monthrange(year, month))

\* ScheduleOptions.get_cutoff_date(month, year)
get_cutoff_date(options, month, year) ==
    LET last_day    == monthrange(year, month)
        actual_day  == IF options.cutoff_day < last_day THEN options.cutoff_day ELSE last_day
        cutoff_date == date(year, month, actual_day)
    IN  IF weekday(cutoff_date) >= 5
        THEN (IF options.weekend_adjustment = "last_working_day"
              THEN cutoff_date - (weekday(cutoff_date) - 4)
              ELSE cutoff_date + (7 - weekday(cutoff_date)))
        ELSE cutoff_date

\* Bill.amount: the amount of the last price-history entry, None without one
bill_amount(bill) ==
    IF Len(bill.price_history) > 0
    THEN bill.price_history[Len(bill.price_history)].amount ELSE NoAmount

\* Bill.recurrence: the recurrence of the last price-history entry
bill_recurrence(bill) ==
    IF Len(bill.price_history) > 0
    THEN bill.price_history[Len(bill.price_history)].recurrence ELSE NoRecurrence

NoPriceInfo == [amount |-> 0, recurrence |-> NoRecurrence, start_date |-> NoDate]

\* Bill.get_price_info_for_date(target_date): the last entry of the sorted
\* history that starts on or before the date, None without one
RECURSIVE price_info_scan(_, _, _)
price_info_scan(history, target_date, applicable_history) ==
    IF history = <<>> THEN applicable_history
    ELSE IF Head(history).start_date <= target_date
         THEN price_info_scan(Tail(history), target_date, Head(history))
         ELSE applicable_history

get_price_info_for_date(bill, target_date) ==
    price_info_scan(bill.price_history, target_date, NoPriceInfo)

----------------------------------------------------------------------------
(* models/bill.py: Bill.calculate_payee_shares *)

\* a payee object that has no attribute default_share_percentage: Payee.__init__
\* sets name, pay_schedules, description and start_date only
NoAttr == -2

\* the dict of a call that returned, and a call that raised
Returned(result) == [called |-> TRUE, raised |-> "", result |-> result]
Raised(exception) == [called |-> TRUE, raised |-> exception, result |-> [n \in {} |-> R(0)]]

payee_names(payees) == { payees[i].name : i \in 1..Len(payees) }

\* the payee a loop over `payees` assigns last under the key n
last_named(payees, n) ==
    payees[CHOOSE i \in 1..Len(payees) :
               /\ payees[i].name = n
               /\ \A j \in (i + 1)..Len(payees) : payees[j].name # n]

\* line 177 without the filter on self.share.exclude
eligible_payees_unfiltered(bill, all_payees) == all_payees

\* line 177
eligible_payees(bill, all_payees) ==
    SelectSeq(all_payees, LAMBDA p : p.name \notin bill.share.exclude)

\* lines 186-193: the payees of the `if` branch and those of the `else` branch
custom_payees(bill, eligible) ==
    SelectSeq(eligible, LAMBDA p : p.name \in DOMAIN bill.share.custom)

unassigned_payees(bill, eligible) ==
    SelectSeq(eligible, LAMBDA p : p.name \notin DOMAIN bill.share.custom)

\* lines 189-191: the sum of the percentages taken off remaining_percentage
RECURSIVE sum_custom(_, _)
sum_custom(bill, payees) ==
    IF payees = <<>> THEN 0
    ELSE bill.share.custom[Head(payees).name] + sum_custom(bill, Tail(payees))

\* line 190, for every payee of the `if` branch
custom_shares(bill, payees) ==
    [n \in payee_names(payees) |-> R(bill.share.custom[n])]

\* lines 198, 199
payees_with_defaults(unassigned) ==
    SelectSeq(unassigned, LAMBDA p : p.default_share_percentage # NoPct)

payees_without_defaults(unassigned) ==
    SelectSeq(unassigned, LAMBDA p : p.default_share_percentage = NoPct)

\* line 202
RECURSIVE sum_defaults(_)
sum_defaults(payees) ==
    IF payees = <<>> THEN 0
    ELSE Head(payees).default_share_percentage + sum_defaults(Tail(payees))

\* lines 206-207
default_shares(with) ==
    [n \in payee_names(with) |-> R(last_named(with, n).default_share_percentage)]

\* lines 212-214
equal_shares(without, remaining_percentage) ==
    [n \in payee_names(without) |-> RDiv(remaining_percentage, R(Len(without)))]

\* lines 218-220: `result[payee.name] += additional`, once for every payee of
\* payees_with_defaults, so a name that occurs twice receives both additions
RECURSIVE redistributed_shares(_, _, _, _)
redistributed_shares(result, with, total_defaults, remaining_percentage) ==
    IF with = <<>> THEN result
    ELSE redistributed_shares(
             [result EXCEPT ![Head(with).name] =
                 RAdd(@, RMul(Rat(Head(with).default_share_percentage, total_defaults),
                              remaining_percentage))],
             Tail(with), total_defaults, remaining_percentage)

\* lines 223-225
normalized_shares(with, total_defaults, remaining_percentage) ==
    [n \in payee_names(with) |->
        RMul(Rat(last_named(with, n).default_share_percentage, total_defaults), remaining_percentage)]

\* lines 227-228
zero_shares(without) == [n \in payee_names(without) |-> R(0)]

\* lines 211-220, result and remaining_percentage being those after lines 206-208
shares_after_defaults(result, with, without, total_defaults, remaining_percentage) ==
    IF without # <<>> /\ RPos(remaining_percentage)
    THEN Returned(equal_shares(without, remaining_percentage) @@ result)
    ELSE IF RLt(Rat(1, 100), remaining_percentage) /\ with # <<>>
    THEN (IF total_defaults = 0 THEN Raised("ZeroDivisionError")
          ELSE Returned(redistributed_shares(result, with, total_defaults, remaining_percentage)))
    ELSE Returned(result)

\* lines 204-228
shares_of_unassigned(result, remaining_percentage, with, without, total_defaults) ==
    IF RLe(R(total_defaults), remaining_percentage)
    THEN shares_after_defaults(default_shares(with) @@ result, with, without, total_defaults, RSub(remaining_percentage, R(total_defaults)))
    ELSE Returned(zero_shares(without)
                  @@ normalized_shares(with, total_defaults, remaining_percentage)
                  @@ result)

\* lines 196-230; reading default_share_percentage of a payee that has no such
\* attribute raises AttributeError (line 198)
shares_after_custom(result, remaining_percentage, unassigned) ==
    IF unassigned # <<>> /\ RPos(remaining_percentage)
    THEN (IF \E i \in 1..Len(unassigned) : unassigned[i].default_share_percentage = NoAttr
          THEN Raised("AttributeError")
          ELSE \* with and without are bound once, sum_defaults is of with
               Only({ shares_of_unassigned(result, remaining_percentage, w[1], w[2], sum_defaults(w[1]))
                      : w \in {<<payees_with_defaults(unassigned), payees_without_defaults(unassigned)>>} }))
    ELSE Returned(result)

\* lines 183-230
shares_of_eligible(bill, custom, unassigned) ==
    shares_after_custom(custom_shares(bill, custom), R(100 - sum_custom(bill, custom)), unassigned)

\* Bill.calculate_payee_shares(all_payees)
calculate_payee_shares(bill, all_payees) ==
    Only({ IF eligible = <<>> THEN Returned([n \in {} |-> R(0)])
           ELSE shares_of_eligible(bill, custom_payees(bill, eligible), unassigned_payees(bill, eligible))
           : eligible \in {eligible_payees(bill, all_payees)} })

----------------------------------------------------------------------------
(* scheduler/cash_flow.py: helpers *)

BillMaxChecks == 10
IncomeMaxChecks == 50
WeekendMaxChecks == 10

\* CashFlowScheduler._get_month_boundaries(month, year): <<month_start, month_end>>
get_month_boundaries(month, year) ==
    <<date(year, month, 1),
      IF month = 12 THEN date(year + 1, 1, 1) - 1 ELSE date(year, month + 1, 1) - 1>>

RECURSIVE adjust_month_up(_, _)
adjust_month_up(month, year) ==
    IF month < 1 THEN adjust_month_up(month + 12, year - 1) ELSE <<month, year>>

\* _adjust_month_year without `year -= 1` when it wraps month 0 to December
adjust_month_year_same_year(month, year) ==
    LET down == roll_month(month, year)
    IN  IF down[1] < 1 THEN <<down[1] + 12, down[2]>> ELSE down

\* _adjust_month_year without `adjusted_year += 1` when it wraps a month above 12
adjust_month_year_year_kept(month, year) ==
    IF month > 12 THEN <<roll_month(month, year)[1], year>>
    ELSE adjust_month_up(month, year)

\* CashFlowScheduler._adjust_month_year(month, year): <<month, year>>
adjust_month_year(month, year) ==
    LET down == roll_month(month, year) IN adjust_month_up(down[1], down[2])

\* _is_before_projection_start comparing the years only
is_before_projection_start_by_year(month, year) ==
    IF ~(projection_start_month # 0 /\ projection_start_year # 0) THEN FALSE
    ELSE year < projection_start_year

\* CashFlowScheduler._is_before_projection_start(month, year)
is_before_projection_start(month, year) ==
    IF ~(projection_start_month # 0 /\ projection_start_year # 0) THEN FALSE
    ELSE year < projection_start_year
         \/ (year = projection_start_year /\ month < projection_start_month)

\* `schedule.description or f"{schedule.recurrence.interval} payment"`: an
\* interval of None is formatted as 'None'; without a description and without
\* a recurrence the attribute access raises AttributeError, which the result
\* "AttributeError" stands for
description_of(schedule) ==
    IF schedule.description # "" THEN schedule.description
    ELSE IF schedule.recurrence = NoRecurrence THEN "AttributeError"
    ELSE IF schedule.recurrence.interval = NoInterval THEN "None payment"
    ELSE schedule.recurrence.interval \o " payment"

\* _create_no_income_item charging the payee without income nothing
create_no_income_item_unfunded(payee_name, per_payee_responsibility, cutoff_date) ==
    [payee_name            |-> payee_name,
     schedule_description  |-> "No income in previous month",
     income_amount         |-> 0,
     required_contribution |-> R(0),
     contribution_percentage |-> R(0),
     payment_date          |-> cutoff_date,
     is_before_cutoff      |-> FALSE]

\* CashFlowScheduler._create_no_income_item
create_no_income_item(payee_name, per_payee_responsibility, cutoff_date) ==
    [payee_name            |-> payee_name,
     schedule_description  |-> "No income in previous month",
     income_amount         |-> 0,
     required_contribution |-> per_payee_responsibility,
     contribution_percentage |-> R(0),
     payment_date          |-> cutoff_date,
     is_before_cutoff      |-> FALSE]

\* CashFlowScheduler._create_schedule_item
create_schedule_item(payee_name, schedule, payment_date, required_contribution) ==
    [payee_name            |-> payee_name,
     schedule_description  |-> description_of(schedule),
     income_amount         |-> schedule.amount,
     required_contribution |-> required_contribution,
     contribution_percentage |->
         IF schedule.amount > 0
         THEN RMul(RDiv(required_contribution, R(schedule.amount)), R(100))
         ELSE R(0),
     payment_date          |-> payment_date,
     is_before_cutoff      |-> TRUE]

\* sum(schedule.amount for schedule, _ in income)
RECURSIVE sum_amounts(_)
sum_amounts(income) ==
    IF income = <<>> THEN 0
    ELSE Head(income).schedule.amount + sum_amounts(Tail(income))

\* the sum of a list of rationals
RECURSIVE RSum(_)
RSum(s) == IF s = <<>> THEN R(0) ELSE RAdd(Head(s), RSum(Tail(s)))

----------------------------------------------------------------------------
(* scheduler/cash_flow.py: the scans *)

\* the `for _ in range(max_checks)` loop of calculate_monthly_bill_total for one
\* bill: the amount it adds to `total`
bill_scan(bill, check_date, checks_left, month_start, month_end) ==
    LET scan[check \in Int, left \in Nat] ==
            IF left = 0 THEN 0
            ELSE LET next_payment == next_due(bill_recurrence(bill), check)
                 IN  IF next_payment = NoDate THEN 0
                     ELSE IF next_payment > month_end THEN 0
                     ELSE (IF next_payment >= month_start /\ next_payment <= month_end
                           THEN bill_amount(bill) ELSE 0)
                          + scan[next_payment + 1, left - 1]
    IN  scan[check_date, checks_left]

\* the `for bill in self.state.bills` loop of calculate_monthly_bill_total
RECURSIVE bills_total(_, _, _)
bills_total(bills, month_start, month_end) ==
    IF bills = <<>> THEN 0
    ELSE (IF bill_recurrence(Head(bills)) = NoRecurrence THEN 0
          ELSE bill_scan(Head(bills), month_start - 1, BillMaxChecks,
                         month_start, month_end))
         + bills_total(Tail(bills), month_start, month_end)

\* CashFlowScheduler.calculate_monthly_bill_total(target_month, target_year)
calculate_monthly_bill_total(target_month, target_year) ==
    IF is_before_projection_start(target_month, target_year) THEN 0
    ELSE LET mb == get_month_boundaries(target_month, target_year)
         IN  bills_total(state.bills, mb[1], mb[2])

\* lines 323-329 without the `not in found_dates` test of line 327
record_payment_unchecked(found, schedule, adjusted_payment, month_start, month_end) ==
    IF adjusted_payment >= month_start /\ adjusted_payment <= month_end
    THEN Append(found, [schedule |-> schedule, payment_date |-> adjusted_payment])
    ELSE found

\* lines 323-329 of get_payee_income_in_month: a payment adjusted into the month
\* is appended unless its date is in found_dates
record_payment(found, schedule, adjusted_payment, month_start, month_end) ==
    IF /\ adjusted_payment >= month_start
       /\ adjusted_payment <= month_end
       /\ \A i \in 1..Len(found) : found[i].payment_date # adjusted_payment
    THEN Append(found, [schedule |-> schedule, payment_date |-> adjusted_payment])
    ELSE found

\* the `for _ in range(max_checks)` loop of get_payee_income_in_month for one
\* schedule; `found` is what the schedule has appended so far (its dates are
\* found_dates)
RECURSIVE income_scan(_, _, _, _, _, _)
income_scan(schedule, check_date, checks_left, month_start, month_end, found) ==
    IF checks_left = 0 THEN found
    ELSE Only({
        IF next_payment = NoDate THEN found
        ELSE Only({
            IF adjusted_payment > month_end THEN found
            ELSE Only({ income_scan(schedule, next_payment + 1, checks_left - 1,
                                    month_start, month_end, appended)
                        : appended \in {record_payment(found, schedule,
                                           adjusted_payment, month_start, month_end)} })
            : adjusted_payment \in {get_adjusted_payment_date(schedule, next_payment)} })
        : next_payment \in {next_due(schedule.recurrence, check_date)} })

\* the `for schedule in payee.pay_schedules` loop of get_payee_income_in_month
RECURSIVE income_of_schedules(_, _, _)
income_of_schedules(schedules, month_start, month_end) ==
    IF schedules = <<>> THEN <<>>
    ELSE (IF Head(schedules).recurrence = NoRecurrence THEN <<>>
          ELSE income_scan(Head(schedules), month_start - 1, IncomeMaxChecks,
                           month_start, month_end, <<>>))
         \o income_of_schedules(Tail(schedules), month_start, month_end)

\* CashFlowScheduler.get_payee_income_in_month(payee, month_start, month_end):
\* a list of [schedule, payment_date]
get_payee_income_in_month(payee, month_start, month_end) ==
    income_of_schedules(payee.pay_schedules, month_start, month_end)

\* the `for _ in range(max_checks)` loop of check_for_weekend_adjusted_payments
\* for one schedule
weekend_scan(schedule, check_date, checks_left, month_start, month_end) ==
    LET scan[check \in Int, left \in Nat] ==
            IF left = 0 THEN <<>>
            ELSE LET next_payment == next_due(schedule.recurrence, check)
                 IN  IF next_payment = NoDate \/ next_payment > month_end THEN <<>>
                     ELSE LET adjusted_payment ==
                                  get_adjusted_payment_date(schedule, next_payment)
                          IN  (IF /\ next_payment >= month_start
                                  /\ next_payment <= month_end
                                  /\ (adjusted_payment > month_end
                                      \/ adjusted_payment < month_start)
                               THEN <<[schedule      |-> schedule,
                                       original_date |-> next_payment,
                                       adjusted_date |-> adjusted_payment]>>
                               ELSE <<>>)
                              \o scan[next_payment, left - 1]
    IN  scan[check_date, checks_left]

\* the `for schedule in payee.pay_schedules` loop of
\* check_for_weekend_adjusted_payments
RECURSIVE weekend_of_schedules(_, _, _)
weekend_of_schedules(schedules, target_month, target_year) ==
    IF schedules = <<>> THEN <<>>
    ELSE (IF Head(schedules).recurrence = NoRecurrence THEN <<>>
          ELSE LET month_start == date(target_year, target_month, 1)
                   month_end   == IF target_month = 12
                                  THEN date(target_year + 1, 1, 1) - 1
                                  ELSE date(target_year, target_month + 1, 1) - 1
               IN  weekend_scan(Head(schedules), month_start - 1, WeekendMaxChecks,
                                month_start, month_end))
         \o weekend_of_schedules(Tail(schedules), target_month, target_year)

\* CashFlowScheduler.check_for_weekend_adjusted_payments(payee, month, year):
\* a list of [schedule, original_date, adjusted_date]
check_for_weekend_adjusted_payments(payee, target_month, target_year) ==
    weekend_of_schedules(payee.pay_schedules, target_month, target_year)

\* the loop of _calculate_weekend_adjustment_shortfall over the adjustments
RECURSIVE shortfall_sum(_, _, _, _, _)
shortfall_sum(adjustments, income_month, income_year, per_payee_responsibility, total_income) ==
    IF adjustments = <<>> THEN R(0)
    ELSE LET a    == Head(adjustments)
             rest == shortfall_sum(Tail(adjustments), income_month, income_year,
                                   per_payee_responsibility, total_income)
         IN  IF month_of(a.original_date) = income_month
                /\ year_of(a.original_date) = income_year
             THEN (IF a.schedule.contribution_percentage # NoPct
                   THEN RAdd(RMul(per_payee_responsibility,
                                  Rat(a.schedule.contribution_percentage, 100)), rest)
                   ELSE IF total_income > 0
                   THEN RAdd(RMul(per_payee_responsibility,
                                  Rat(a.schedule.amount, total_income)), rest)
                   ELSE rest)
             ELSE rest

\* CashFlowScheduler._calculate_weekend_adjustment_shortfall
calculate_weekend_adjustment_shortfall(payee, income_month, income_year, per_payee_responsibility, total_income) ==
    shortfall_sum(check_for_weekend_adjusted_payments(payee, income_month, income_year),
                  income_month, income_year, per_payee_responsibility, total_income)

----------------------------------------------------------------------------
(* scheduler/cash_flow.py: the allocation *)

\* `weekend_adjustment_share` of one schedule in the custom and remaining paths
weekend_adjustment_share(schedule, total_income, weekend_adjusted_shortfall) ==
    IF RPos(weekend_adjusted_shortfall) /\ total_income > 0
    THEN RMul(weekend_adjusted_shortfall, Rat(schedule.amount, total_income))
    ELSE R(0)

IsCustom(e) == e.schedule.contribution_percentage # NoPct
IsNotCustom(e) == e.schedule.contribution_percentage = NoPct

\* sum of schedule.contribution_percentage over the custom events
RECURSIVE sum_percentages(_)
sum_percentages(income) ==
    IF income = <<>> THEN 0
    ELSE Head(income).schedule.contribution_percentage + sum_percentages(Tail(income))

\* CashFlowScheduler._process_custom_percentage_schedules:
\* [schedule_items, total_custom_bill_percentage, remaining_schedules]
process_custom_percentage_schedules(payee, income_schedules, per_payee_responsibility, total_income, weekend_adjusted_shortfall) ==
    LET custom == SelectSeq(income_schedules, IsCustom)
    IN  [schedule_items |->
            [i \in 1..Len(custom) |->
                LET schedule == custom[i].schedule
                    base_contribution ==
                        RMul(per_payee_responsibility,
                             Rat(schedule.contribution_percentage, 100))
                IN  create_schedule_item(payee.name, schedule, custom[i].payment_date,
                        RAdd(base_contribution,
                             weekend_adjustment_share(schedule, total_income,
                                                      weekend_adjusted_shortfall)))],
         total_custom_bill_percentage |-> sum_percentages(custom),
         remaining_schedules |-> SelectSeq(income_schedules, IsNotCustom)]

\* _process_remaining_schedules taking each event's proportion of the payee's
\* whole income instead of the income of the remaining schedules
process_remaining_schedules_of_all_income(payee, remaining_schedules, per_payee_responsibility, remaining_bill_percentage, total_income, weekend_adjusted_shortfall) ==
    [i \in 1..Len(remaining_schedules) |->
        create_schedule_item(payee.name, remaining_schedules[i].schedule,
            remaining_schedules[i].payment_date,
            RAdd(IF remaining_bill_percentage <= 0 THEN R(0)
                 ELSE RMul(per_payee_responsibility,
                           RMul(Rat(remaining_bill_percentage, 100),
                                Rat(remaining_schedules[i].schedule.amount, total_income))),
                 weekend_adjustment_share(remaining_schedules[i].schedule, total_income,
                                          weekend_adjusted_shortfall)))]

\* CashFlowScheduler._process_remaining_schedules
process_remaining_schedules(payee, remaining_schedules, per_payee_responsibility, remaining_bill_percentage, total_income, weekend_adjusted_shortfall) ==
    IF remaining_bill_percentage <= 0 \/ remaining_schedules = <<>>
    THEN [i \in 1..Len(remaining_schedules) |->
            create_schedule_item(payee.name, remaining_schedules[i].schedule,
                remaining_schedules[i].payment_date,
                weekend_adjustment_share(remaining_schedules[i].schedule, total_income,
                                         weekend_adjusted_shortfall))]
    ELSE LET total_remaining_income == sum_amounts(remaining_schedules)
         IN  [i \in 1..Len(remaining_schedules) |->
                LET schedule == remaining_schedules[i].schedule
                IN  create_schedule_item(payee.name, schedule,
                        remaining_schedules[i].payment_date,
                        IF total_remaining_income > 0
                        THEN LET proportion == Rat(schedule.amount, total_remaining_income)
                                 bill_percentage_for_this_stream ==
                                     RMul(R(remaining_bill_percentage), proportion)
                                 base_contribution ==
                                     RMul(per_payee_responsibility,
                                          RDiv(bill_percentage_for_this_stream, R(100)))
                             IN  RAdd(base_contribution,
                                      weekend_adjustment_share(schedule, total_income,
                                          weekend_adjusted_shortfall))
                        ELSE R(0))]

\* _process_proportional_schedules charging every income event the payee's
\* whole responsibility instead of its proportion of it
process_proportional_schedules_unscaled(payee, income_schedules, per_payee_responsibility, total_income, weekend_adjusted_shortfall) ==
    [i \in 1..Len(income_schedules) |->
        create_schedule_item(payee.name, income_schedules[i].schedule,
                             income_schedules[i].payment_date,
                             per_payee_responsibility)]

\* CashFlowScheduler._process_proportional_schedules
process_proportional_schedules(payee, income_schedules, per_payee_responsibility, total_income, weekend_adjusted_shortfall) ==
    [i \in 1..Len(income_schedules) |->
        LET schedule == income_schedules[i].schedule
        IN  create_schedule_item(payee.name, schedule, income_schedules[i].payment_date,
                IF total_income > 0
                THEN LET proportion == Rat(schedule.amount, total_income)
                         base_contribution == RMul(per_payee_responsibility, proportion)
                     IN  RAdd(base_contribution,
                              IF RPos(weekend_adjusted_shortfall)
                              THEN RMul(weekend_adjusted_shortfall, proportion)
                              ELSE R(0))
                ELSE R(0))]

\* the WeekendAdjustment records appended for one payee and bill month
payee_weekend_adjustments(payee, current_month, current_year) ==
    Only({ [i \in 1..Len(found) |->
               [payee_name           |-> payee.name,
                schedule_description |-> description_of(found[i].schedule),
                original_date        |-> found[i].original_date,
                adjusted_date        |-> found[i].adjusted_date,
                income_amount        |-> found[i].schedule.amount]]
           : found \in {check_for_weekend_adjusted_payments(payee, current_month,
                                                            current_year)} })

\* lines 394-415 of calculate_proportional_contributions: the items of a payee
\* with income in the funding month
allocate_income(payee, income_during_previous_month, per_payee_responsibility, total_income_from_previous_month, weekend_adjusted_shortfall) ==
    LET has_custom_percentages ==
            \E i \in 1..Len(income_during_previous_month) :
                IsCustom(income_during_previous_month[i])
    IN  IF has_custom_percentages
        THEN Only({ c.schedule_items
                    \o process_remaining_schedules(payee, c.remaining_schedules,
                           per_payee_responsibility,
                           100 - c.total_custom_bill_percentage,
                           total_income_from_previous_month,
                           weekend_adjusted_shortfall)
                    : c \in {process_custom_percentage_schedules(payee,
                                 income_during_previous_month, per_payee_responsibility,
                                 total_income_from_previous_month,
                                 weekend_adjusted_shortfall)} })
        ELSE process_proportional_schedules(payee, income_during_previous_month,
                 per_payee_responsibility, total_income_from_previous_month,
                 weekend_adjusted_shortfall)

\* lines 372-415: the items of a payee whose income in the funding month is
\* income_during_previous_month
items_for_income(payee, income_during_previous_month, per_payee_responsibility, cutoff_date, income_month, income_year) ==
    IF income_during_previous_month = <<>>
    THEN <<create_no_income_item(payee.name, per_payee_responsibility, cutoff_date)>>
    ELSE Only({ Only({ allocate_income(payee, income_during_previous_month,
                           per_payee_responsibility, total_income_from_previous_month,
                           weekend_adjusted_shortfall)
                       : weekend_adjusted_shortfall \in
                           {calculate_weekend_adjustment_shortfall(payee, income_month,
                                income_year, per_payee_responsibility,
                                total_income_from_previous_month)} })
                : total_income_from_previous_month \in
                      {sum_amounts(income_during_previous_month)} })

\* the schedule items one pass of `for payee in self.state.payees` appends
payee_items(payee, per_payee_responsibility, cutoff_date, income_month, income_year) ==
    Only({ items_for_income(payee, income_during_previous_month,
                            per_payee_responsibility, cutoff_date, income_month,
                            income_year)
           : income_during_previous_month \in
                 {get_payee_income_in_month(payee,
                      get_month_boundaries(income_month, income_year)[1],
                      get_month_boundaries(income_month, income_year)[2])} })

\* the weekend adjustments one pass of `for payee in self.state.payees` appends:
\* none for a payee without income in the funding month (the `continue`)
payee_adjustments(payee, current_month, current_year, income_month, income_year) ==
    LET mb == get_month_boundaries(income_month, income_year)
    IN  IF get_payee_income_in_month(payee, mb[1], mb[2]) = <<>> THEN <<>>
        ELSE payee_weekend_adjustments(payee, current_month, current_year)

\* what `for payee in self.state.payees` appends to schedule_items
RECURSIVE all_payee_items(_, _, _, _, _)
all_payee_items(payees, per_payee_responsibility, cutoff_date, income_month, income_year) ==
    IF payees = <<>> THEN <<>>
    ELSE payee_items(Head(payees), per_payee_responsibility, cutoff_date,
                     income_month, income_year)
         \o all_payee_items(Tail(payees), per_payee_responsibility, cutoff_date,
                            income_month, income_year)

\* what `for payee in self.state.payees` appends to weekend_adjustments
RECURSIVE all_payee_adjustments(_, _, _, _, _)
all_payee_adjustments(payees, current_month, current_year, income_month, income_year) ==
    IF payees = <<>> THEN <<>>
    ELSE payee_adjustments(Head(payees), current_month, current_year,
                           income_month, income_year)
         \o all_payee_adjustments(Tail(payees), current_month, current_year,
                                  income_month, income_year)

\* the bill month an item was emitted for: the loop pass, not a field of
\* PaymentScheduleItem
InMonth(items, month, year) ==
    [i \in 1..Len(items) |-> items[i] @@ [bill_month |-> month, bill_year |-> year]]

----------------------------------------------------------------------------
(* the inputs *)

MaxMonthsAhead == 2
MaxEvery == 3
MaxQueryDays == 150

Recurrence(kind, interval, every, start, end) ==
    [kind |-> kind, interval |-> interval, every |-> every, start |-> start, end |-> end]

\* PaySchedule(amount, recurrence, description, weekend_adjustment,
\* contribution_percentage), after __init__: `amount or 1000.0` (an amount of
\* None or 0 becomes 1000) and `weekend_adjustment or 'last_working_day'` (""
\* stands for None and for the empty string)
PaySchedule(amount, recurrence, description, weekend_adjustment, pct) ==
    [amount |-> IF amount = 0 THEN 1000 ELSE amount,
     recurrence |-> recurrence, description |-> description,
     weekend_adjustment |-> IF weekend_adjustment = "" THEN "last_working_day"
                            ELSE weekend_adjustment,
     contribution_percentage |-> pct]

Payee(name, pay_schedules, start_date) ==
    [name |-> name, pay_schedules |-> pay_schedules, start_date |-> start_date]

\* BillPriceHistory(amount, recurrence, start_date)
BillPriceHistory(amount, recurrence, start_date) ==
    [amount |-> amount, recurrence |-> recurrence, start_date |-> start_date]

\* Bill(name, amount, recurrence): the old format. With an amount and a
\* recurrence the price history has one entry, which starts on the start of
\* the recurrence or, without one, on 2024-01-01; without an amount or
\* without a recurrence the price history is empty
Bill(name, amount, recurrence) ==
    [name |-> name,
     price_history |->
         IF amount # NoAmount /\ recurrence # NoRecurrence
         THEN <<BillPriceHistory(amount, recurrence,
                                 IF recurrence.start # NoDate THEN recurrence.start
                                 ELSE date(2024, 1, 1))>>
         ELSE <<>>]

\* sorted(price_history, key=lambda x: x.start_date): ascending start dates,
\* entries of the same start date in the order given
RECURSIVE sorted_by_start_date(_)
sorted_by_start_date(price_history) ==
    IF price_history = <<>> THEN <<>>
    ELSE LET front == sorted_by_start_date(SubSeq(price_history, 1, Len(price_history) - 1))
             last  == price_history[Len(price_history)]
             k     == Cardinality({ i \in 1..Len(front) :
                                     front[i].start_date <= last.start_date })
         IN  SubSeq(front, 1, k) \o <<last>> \o SubSeq(front, k + 1, Len(front))

\* Bill(name, price_history=[...]): the entries sorted by their start dates
PricedBill(name, price_history) ==
    [name |-> name, price_history |-> sorted_by_start_date(price_history)]

CalendarMonthly(start) == Recurrence("calendar", "monthly", 0, start, NoDate)

\* contribution_percentage of a pay schedule: None, 0 %, 60 %, 100 %
Percentages == {NoPct, 0, 60, 100}

\* the pay schedules of the first payee, for each declared percentage
SchedulePool ==
    UNION {
      { PaySchedule(3000, CalendarMonthly(date(2024, 2, 15)), "Salary",
                    "last_working_day", pct),
        \* every second Thursday; two payments in most months
        PaySchedule(500, Recurrence("interval", "weekly", 2, date(2024, 2, 8), NoDate),
                    "Freelance", "last_working_day", pct),
        \* the 30th: Saturday 2024-03-30 and Saturday 2024-11-30 move to the
        \* Monday of the next month
        PaySchedule(2000, CalendarMonthly(date(2024, 1, 30)), "Month Edge",
                    "next_working_day", pct),
        \* the 1st: Sunday 2024-12-01 moves to the Friday of the previous month
        PaySchedule(1500, CalendarMonthly(date(2024, 1, 1)), "",
                    "last_working_day", pct),
        \* nothing before 2024-04-15
        PaySchedule(1000, CalendarMonthly(date(2024, 4, 15)), "Late",
                    "last_working_day", pct) }
      : pct \in Percentages }
    \* every day: Saturday and Sunday move to the Friday before them
    \cup { PaySchedule(100, Recurrence("interval", "daily", 1, date(2024, 2, 1), NoDate),
                       "Daily", "last_working_day", NoPct),
            \* starts on Saturday 2024-03-30, which moves to Monday 1 April
            PaySchedule(1800, CalendarMonthly(date(2024, 3, 30)), "Contract",
                        "next_working_day", NoPct) }

\* the first payee: one or two pay schedules
FirstPayees ==
    { Payee("Alice", <<a>>, NoDate) : a \in SchedulePool }
    \cup { Payee("Alice", <<a, b>>, NoDate) : a \in SchedulePool, b \in SchedulePool }

\* the second payee: with income, without any pay schedule, starting 2024-04-01
SecondPayees ==
    { Payee("Bob", <<PaySchedule(2000, CalendarMonthly(date(2024, 2, 15)), "Salary",
                                 "last_working_day", NoPct)>>, NoDate),
      Payee("Bob", <<>>, NoDate),
      Payee("Bob", <<PaySchedule(1500, CalendarMonthly(date(2024, 2, 15)), "Bob Job",
                                 "last_working_day", NoPct)>>, date(2024, 4, 1)) }

Rosters ==
    {<<>>} \cup { <<p>> : p \in FirstPayees }
    \cup { <<p, q>> : p \in FirstPayees, q \in SecondPayees }

SmallRosters ==
    {<<>>}
    \cup { <<Payee("Alice", <<a>>, NoDate)>> :
             a \in { x \in SchedulePool : x.contribution_percentage = NoPct } }

Rent == Bill("Rent", 1200, CalendarMonthly(date(2024, 3, 15)))

\* due on the 15th of every month from March 2024; 40 until the end of 2024,
\* 55 from 2025-01-01 (the entries are given latest first)
Broadband ==
    PricedBill("Broadband",
               <<BillPriceHistory(55, CalendarMonthly(date(2024, 3, 15)), date(2025, 1, 1)),
                 BillPriceHistory(40, CalendarMonthly(date(2024, 3, 15)), date(2024, 3, 1))>>)

BillLists ==
    { <<>>,
      <<Rent>>,
      <<Bill("One-time", 500, NoRecurrence)>>,
      <<Rent, Bill("Utilities", 300, CalendarMonthly(date(2024, 3, 20)))>>,
      <<Bill("Weekly Service", 50,
             Recurrence("interval", "weekly", 1, date(2024, 3, 1), NoDate))>>,
      <<Bill("Daily", 10,
             Recurrence("interval", "daily", 1, date(2024, 3, 1), NoDate))>>,
      <<Bill("Every 2 days", 10,
             Recurrence("interval", "daily", 2, date(2024, 3, 1), NoDate))>>,
      <<Bill("Property Tax", 1800,
             Recurrence("calendar", "quarterly", 0, date(2024, 4, 15), NoDate))>>,
      <<Bill("Insurance", 600,
             Recurrence("calendar", "monthly", 2, date(2024, 1, 15), NoDate))>>,
      <<Bill("Temp Service", 100,
             Recurrence("calendar", "monthly", 0, date(2024, 1, 15), date(2024, 2, 28)))>>,
      <<Broadband>> }

ScheduleOptionsPool ==
    { [cutoff_day |-> 28, weekend_adjustment |-> "last_working_day"],
      [cutoff_day |-> 31, weekend_adjustment |-> "next_working_day"] }

\* the payees calculate_payee_shares is called with: a name and, where the
\* object has the attribute, a default share percentage (NoPct = None)
SharePayee(name, default_share_percentage) ==
    [name |-> name, default_share_percentage |-> default_share_percentage]

ShareNames == {"Alice", "Bob", "Carol"}

DefaultPercentages == {NoAttr, NoPct, 0, 30, 80}

ShareRosters ==
    {<<>>}
    \cup { <<SharePayee("Alice", a)>> : a \in DefaultPercentages }
    \cup { <<SharePayee("Alice", a), SharePayee("Bob", b)>>
           : a \in DefaultPercentages, b \in DefaultPercentages }
    \cup { <<SharePayee("Alice", a), SharePayee("Bob", b), SharePayee("Carol", c)>>
           : a \in DefaultPercentages, b \in DefaultPercentages,
             c \in DefaultPercentages }
    \cup { <<SharePayee("Alice", a), SharePayee("Alice", b)>>
           : a \in DefaultPercentages, b \in DefaultPercentages }

\* BillShare(exclude, custom): custom percentages of 40 and 100
BillShares ==
    UNION { [exclude : {e}, custom : [c -> {40, 100}]]
            : e \in SUBSET ShareNames, c \in SUBSET ShareNames }

\* <<start_month, start_year>> of a projection
ProjectionStarts == { <<3, 2024>>, <<12, 2024>> }

\* the recurrences next_due is queried on
RecurrencePool ==
    { Recurrence(k, i, e, s, x) :
        k \in {"interval", "calendar"},
        i \in {"daily", "weekly", "monthly", "quarterly", "yearly", NoInterval},
        e \in 0..MaxEvery,
        s \in {date(2024, 1, 31), date(2024, 2, 29), date(2024, 4, 15)},
        x \in {NoDate, date(2024, 2, 10), date(2024, 5, 10)} }

QueryDates == date(2024, 1, 1) .. (date(2024, 1, 1) + MaxQueryDays)

----------------------------------------------------------------------------
(* the projection: calculate_proportional_contributions, one action per pass *)
(* of `for month_offset in range(months_ahead)`                              *)

RecIdle == rec = NoRecurrence /\ after = NoDate /\ due = NoDate

\* no call of calculate_payee_shares
NoShares == [called |-> FALSE, raised |-> "", result |-> [n \in {} |-> R(0)]]

ShareIdle ==
    /\ share_bill = [share |-> [exclude |-> {}, custom |-> [n \in {} |-> 0]]]
    /\ share_payees = <<>>
    /\ shares = NoShares

\* no call of get_adjusted_payment_date
AdjIdle ==
    /\ adj_schedule = PaySchedule(0, NoRecurrence, "", "", NoPct)
    /\ adj_payment_date = NoDate
    /\ adj_result = NoDate

\* no call of a month query
NoQuery == [method |-> "none", payee |-> 0, month |-> 0, year |-> 0, result |-> 0]

QueryIdle == query = NoQuery

\* no loop running
NoLoop ==
    [kind |-> "none", recurrence |-> NoRecurrence,
     weekend_adjustment |-> "last_working_day", base_date |-> NoDate,
     month_start |-> NoDate, month_end |-> NoDate, current_date |-> NoDate,
     check_date |-> NoDate, checks |-> 0, pc |-> "idle"]

LoopIdle == loop = NoLoop

Init ==
    /\ \/ /\ state \in [bills : {<<Rent>>}, payees : Rosters,
                        schedule_options : ScheduleOptionsPool]
       \/ /\ state \in [bills : BillLists, payees : SmallRosters,
                        schedule_options : ScheduleOptionsPool]
    /\ projection_start_month = 0
    /\ projection_start_year = 0
    /\ \E s \in ProjectionStarts : start_month = s[1] /\ start_year = s[2]
    /\ months_ahead \in 0..MaxMonthsAhead
    /\ month_offset = 0
    /\ schedule_items = <<>>
    /\ monthly_bill_totals = <<>>
    /\ weekend_adjustments = <<>>
    /\ pc = "loop"
    /\ RecIdle
    /\ ShareIdle
    /\ AdjIdle
    /\ QueryIdle
    /\ LoopIdle

\* the month of the pass without `+ month_offset`: the start month every time
CurrentMonth_of_start == adjust_month_year(start_month, start_year)

CurrentMonth == adjust_month_year(start_month + month_offset, start_year)

\* a pass that ends at one of the two `continue`s
SkipMonth ==
    /\ pc = "loop"
    /\ month_offset < months_ahead
    /\ LET current_month == CurrentMonth[1]
           current_year  == CurrentMonth[2]
           total_bills   == calculate_monthly_bill_total(current_month, current_year)
       IN  /\ total_bills <= 0 \/ Len(state.payees) = 0
           /\ monthly_bill_totals' =
                  Append(monthly_bill_totals,
                         [month |-> current_month, year |-> current_year,
                          total_bills |-> total_bills])
    /\ month_offset' = month_offset + 1
    /\ UNCHANGED <<state, projection_start_month, projection_start_year, start_month,
                   start_year, months_ahead, schedule_items, weekend_adjustments, pc>>
    /\ UNCHANGED <<recVars, shareVars, adjVars, queryVars, loopVars>>

\* a pass that allocates the month's bills to every payee
AllocateMonth ==
    /\ pc = "loop"
    /\ month_offset < months_ahead
    /\ \E current \in {CurrentMonth} :
       \E total_bills \in {calculate_monthly_bill_total(current[1], current[2])},
          cutoff_date \in {get_cutoff_date(state.schedule_options, current[1],
                                           current[2])},
          income \in {adjust_month_year(current[1] - 1, current[2])},
          num_payees \in {Len(state.payees)} :
           /\ total_bills > 0
           /\ num_payees # 0
           /\ monthly_bill_totals' =
                  Append(monthly_bill_totals,
                         [month |-> current[1], year |-> current[2],
                          total_bills |-> total_bills])
           /\ \E per_payee_responsibility \in {Rat(total_bills, num_payees)} :
              \E items \in {all_payee_items(state.payees, per_payee_responsibility,
                                            cutoff_date, income[1], income[2])} :
                  /\ schedule_items' =
                        schedule_items \o InMonth(items, current[1], current[2])
                  /\ weekend_adjustments' = weekend_adjustments \o
                        all_payee_adjustments(state.payees, current[1], current[2],
                                              income[1], income[2])
    /\ month_offset' = month_offset + 1
    /\ UNCHANGED <<state, projection_start_month, projection_start_year, start_month,
                   start_year, months_ahead, pc>>
    /\ UNCHANGED <<recVars, shareVars, adjVars, queryVars, loopVars>>

\* the loop is over: return PaymentScheduleResult
Return ==
    /\ pc = "loop"
    /\ month_offset = months_ahead
    /\ pc' = "done"
    /\ UNCHANGED <<state, projection_start_month, projection_start_year, start_month,
                   start_year, months_ahead, month_offset, schedule_items,
                   monthly_bill_totals, weekend_adjustments>>
    /\ UNCHANGED <<recVars, shareVars, adjVars, queryVars, loopVars>>

Next == SkipMonth \/ AllocateMonth \/ Return

Spec == Init /\ [][Next]_vars

----------------------------------------------------------------------------
(* Recurrence.next_due as a function of the recurrence and the query date *)

SchedIdle ==
    /\ state = [bills |-> <<>>, payees |-> <<>>,
                schedule_options |-> [cutoff_day |-> 28,
                                      weekend_adjustment |-> "last_working_day"]]
    /\ projection_start_month = 0 /\ projection_start_year = 0
    /\ start_month = 1 /\ start_year = 2024 /\ months_ahead = 0 /\ month_offset = 0
    /\ schedule_items = <<>> /\ monthly_bill_totals = <<>> /\ weekend_adjustments = <<>>
    /\ pc = "idle"

InitRecurrence ==
    /\ SchedIdle
    /\ ShareIdle
    /\ AdjIdle
    /\ QueryIdle
    /\ LoopIdle
    /\ rec \in RecurrencePool
    /\ after = NoDate
    /\ due = NoDate

\* due = rec.next_due(a)
QueryNextDue ==
    /\ \E a \in QueryDates :
          /\ after' = a
          /\ due' = next_due(rec, a)
    /\ UNCHANGED rec
    /\ UNCHANGED <<schedVars, shareVars, adjVars, queryVars, loopVars>>

NextRecurrence == QueryNextDue

SpecRecurrence == InitRecurrence /\ [][NextRecurrence]_vars

----------------------------------------------------------------------------
(* Bill.calculate_payee_shares as a function of the bill's share and the payees *)

InitShares ==
    /\ SchedIdle
    /\ RecIdle
    /\ AdjIdle
    /\ QueryIdle
    /\ LoopIdle
    /\ share_bill \in [share : BillShares]
    /\ share_payees \in ShareRosters
    /\ shares = NoShares

\* shares = share_bill.calculate_payee_shares(share_payees)
CalculateShares ==
    /\ shares' = calculate_payee_shares(share_bill, share_payees)
    /\ UNCHANGED <<share_bill, share_payees>>
    /\ UNCHANGED <<schedVars, recVars, adjVars, queryVars, loopVars>>

NextShares == CalculateShares

SpecShares == InitShares /\ [][NextShares]_vars

----------------------------------------------------------------------------
(* PaySchedule.get_adjusted_payment_date as a function of the schedule's *)
(* strategy and the date, applied to a date and to its own result        *)

\* pay schedules of the two strategies: PaySchedule() with its defaults, and
\* PaySchedule(weekend_adjustment='next_working_day')
AdjustSchedules ==
    { PaySchedule(0, NoRecurrence, "", w, NoPct)
      : w \in {"", "next_working_day"} }

InitAdjust ==
    /\ SchedIdle
    /\ RecIdle
    /\ ShareIdle
    /\ QueryIdle
    /\ LoopIdle
    /\ adj_schedule \in AdjustSchedules
    /\ adj_payment_date = NoDate
    /\ adj_result = NoDate

\* adj_result = adj_schedule.get_adjusted_payment_date(d)
AdjustPaymentDate ==
    /\ \E d \in QueryDates :
          /\ adj_payment_date' = d
          /\ adj_result' = get_adjusted_payment_date(adj_schedule, d)
    /\ UNCHANGED adj_schedule
    /\ UNCHANGED <<schedVars, recVars, shareVars, queryVars, loopVars>>

\* the result of the last call adjusted again
AdjustAgain ==
    /\ adj_payment_date # NoDate
    /\ adj_payment_date' = adj_result
    /\ adj_result' = get_adjusted_payment_date(adj_schedule, adj_result)
    /\ UNCHANGED adj_schedule
    /\ UNCHANGED <<schedVars, recVars, shareVars, queryVars, loopVars>>

NextAdjust == AdjustPaymentDate \/ AdjustAgain

SpecAdjust == InitAdjust /\ [][NextAdjust]_vars

----------------------------------------------------------------------------
(* the methods that answer for one month, each called on its object with the *)
(* months from January 2024 on: Payee.is_active_for_month,                   *)
(* ScheduleOptions.get_cutoff_date and                                       *)
(* CashFlowScheduler.calculate_monthly_bill_total                            *)

MaxQueryMonths == 14

\* <<month, year>> of the k-th month after January 2024
QueryMonth(k) == <<(k % 12) + 1, 2024 + (k \div 12)>>

DefaultScheduleOptions == [cutoff_day |-> 28, weekend_adjustment |-> "last_working_day"]

\* payees starting on the first, in the middle and on the last day of a month,
\* and one without a start date
QueryPayees ==
    { Payee("Carol", <<>>, d)
      : d \in {NoDate, date(2024, 4, 1), date(2024, 4, 15), date(2024, 12, 31)} }

\* every cutoff day with either strategy
QueryScheduleOptions ==
    { [cutoff_day |-> c, weekend_adjustment |-> w]
      : c \in 1..31, w \in {"last_working_day", "next_working_day"} }

QueryStates ==
    { [bills |-> <<>>, payees |-> <<p>>, schedule_options |-> DefaultScheduleOptions]
      : p \in QueryPayees }
    \cup { [bills |-> <<>>, payees |-> <<>>, schedule_options |-> o]
            : o \in QueryScheduleOptions }
    \cup { [bills |-> b, payees |-> <<>>, schedule_options |-> DefaultScheduleOptions]
            : b \in BillLists }

\* CashFlowScheduler(state), CashFlowScheduler(state, 6, 2024),
\* CashFlowScheduler(state, 1, 2025)
QueryProjectionStarts == {<<0, 0>>, <<6, 2024>>, <<1, 2025>>}

InitQuery ==
    /\ RecIdle
    /\ ShareIdle
    /\ AdjIdle
    /\ state \in QueryStates
    /\ \E start \in QueryProjectionStarts :
          projection_start_month = start[1] /\ projection_start_year = start[2]
    /\ start_month = 1 /\ start_year = 2024 /\ months_ahead = 0 /\ month_offset = 0
    /\ schedule_items = <<>> /\ monthly_bill_totals = <<>> /\ weekend_adjustments = <<>>
    /\ pc = "idle"
    /\ query = NoQuery
    /\ LoopIdle

\* query.result = state.payees[i].is_active_for_month(year, month)
IsActiveForMonth ==
    /\ \E i \in 1..Len(state.payees), k \in 0..(MaxQueryMonths - 1) :
          query' = [method |-> "is_active_for_month", payee |-> i,
                    month |-> QueryMonth(k)[1], year |-> QueryMonth(k)[2],
                    result |-> is_active_for_month(state.payees[i], QueryMonth(k)[2],
                                                   QueryMonth(k)[1])]
    /\ UNCHANGED <<schedVars, recVars, shareVars, adjVars, loopVars>>

\* query.result = state.schedule_options.get_cutoff_date(month, year)
GetCutoffDate ==
    /\ \E k \in 0..(MaxQueryMonths - 1) :
          query' = [method |-> "get_cutoff_date", payee |-> 0,
                    month |-> QueryMonth(k)[1], year |-> QueryMonth(k)[2],
                    result |-> get_cutoff_date(state.schedule_options, QueryMonth(k)[1],
                                               QueryMonth(k)[2])]
    /\ UNCHANGED <<schedVars, recVars, shareVars, adjVars, loopVars>>

\* query.result = scheduler.calculate_monthly_bill_total(month, year)
CalculateMonthlyBillTotal ==
    /\ \E k \in 0..(MaxQueryMonths - 1) :
          query' = [method |-> "calculate_monthly_bill_total", payee |-> 0,
                    month |-> QueryMonth(k)[1], year |-> QueryMonth(k)[2],
                    result |-> calculate_monthly_bill_total(QueryMonth(k)[1],
                                                            QueryMonth(k)[2])]
    /\ UNCHANGED <<schedVars, recVars, shareVars, adjVars, loopVars>>

NextQuery == IsActiveForMonth \/ GetCutoffDate \/ CalculateMonthlyBillTotal

SpecQuery == InitQuery /\ [][NextQuery]_vars

----------------------------------------------------------------------------
(* termination: the projection on small states, and the loops below it run   *)
(* one pass at a time; every step that can be taken is taken                 *)

\* an interval recurrence whose `every` is 0
Broken == Bill("Broken", 75, Recurrence("interval", "monthly", 0, date(2024, 3, 10), NoDate))

\* first days of the months from January 2024 on
LoopMonths ==
    { date(QueryMonth(k)[2], QueryMonth(k)[1], 1) : k \in 0..(MaxQueryMonths - 1) }

\* _calculate_monthly_interval past its early return: current_date = self.start
WhileLoops ==
    { [NoLoop EXCEPT !.kind = "while", !.recurrence = r, !.base_date = b,
                     !.current_date = r.start, !.pc = "run"]
      : r \in { Recurrence("interval", "monthly", e, s, NoDate)
                : e \in 1..MaxEvery, s \in {date(2024, 1, 31), date(2024, 2, 29)} },
        b \in LoopMonths \ {date(2024, 1, 1), date(2024, 2, 1)} }

\* the scan of one bill in calculate_monthly_bill_total:
\* check_date = month_start - timedelta(days=1)
BillScans ==
    { [NoLoop EXCEPT !.kind = "bill_scan", !.recurrence = bill_recurrence(b[1]),
                     !.month_start = m,
                     !.month_end = get_month_boundaries(month_of(m), year_of(m))[2],
                     !.check_date = m - 1, !.pc = "run"]
      : b \in { l \in BillLists \cup {<<Broken>>} :
                  l # <<>> /\ bill_recurrence(l[1]) # NoRecurrence },
        m \in LoopMonths }

\* the scan of one pay schedule in get_payee_income_in_month
IncomeScans ==
    { [NoLoop EXCEPT !.kind = "income_scan", !.recurrence = a.recurrence,
                     !.weekend_adjustment = a.weekend_adjustment,
                     !.month_start = m,
                     !.month_end = get_month_boundaries(month_of(m), year_of(m))[2],
                     !.check_date = m - 1, !.pc = "run"]
      : a \in { x \in SchedulePool : x.contribution_percentage = NoPct },
        m \in LoopMonths }

InitTerminates ==
    /\ RecIdle
    /\ ShareIdle
    /\ AdjIdle
    /\ QueryIdle
    /\ \/ /\ state \in [bills : BillLists \cup {<<Broken>>}, payees : SmallRosters,
                        schedule_options : {DefaultScheduleOptions}]
          /\ projection_start_month = 0
          /\ projection_start_year = 0
          /\ \E s \in ProjectionStarts : start_month = s[1] /\ start_year = s[2]
          /\ months_ahead \in 0..MaxMonthsAhead
          /\ month_offset = 0
          /\ schedule_items = <<>>
          /\ monthly_bill_totals = <<>>
          /\ weekend_adjustments = <<>>
          /\ pc = "loop"
          /\ loop = NoLoop
       \/ /\ SchedIdle
          /\ loop \in WhileLoops \cup BillScans \cup IncomeScans

\* one test of `while current_date <= base_date` and, when it holds, the body
WhileStep ==
    /\ loop.kind = "while" /\ loop.pc = "run"
    /\ loop' = IF loop.current_date <= loop.base_date
               THEN [loop EXCEPT !.current_date =
                                    monthly_interval_step(loop.recurrence,
                                                          loop.current_date)]
               ELSE [loop EXCEPT !.pc = "done"]
    /\ UNCHANGED <<schedVars, recVars, shareVars, adjVars, queryVars>>

\* one pass of `for _ in range(max_checks)` in calculate_monthly_bill_total, or
\* the end of the range; checks counts the calls of next_due
BillScanStep ==
    /\ loop.kind = "bill_scan" /\ loop.pc = "run"
    /\ \E next_payment \in {next_due(loop.recurrence, loop.check_date)} :
          loop' = IF loop.checks = BillMaxChecks THEN [loop EXCEPT !.pc = "done"]
                  ELSE IF next_payment = NoDate \/ next_payment > loop.month_end
                  THEN [loop EXCEPT !.checks = loop.checks + 1, !.pc = "done"]
                  ELSE [loop EXCEPT !.checks = loop.checks + 1,
                                    !.check_date = next_payment + 1]
    /\ UNCHANGED <<schedVars, recVars, shareVars, adjVars, queryVars>>

\* one pass of `for _ in range(max_checks)` in get_payee_income_in_month, or
\* the end of the range
IncomeScanStep ==
    /\ loop.kind = "income_scan" /\ loop.pc = "run"
    /\ \E next_payment \in {next_due(loop.recurrence, loop.check_date)} :
          loop' = IF loop.checks = IncomeMaxChecks THEN [loop EXCEPT !.pc = "done"]
                  ELSE IF next_payment = NoDate
                  THEN [loop EXCEPT !.checks = loop.checks + 1, !.pc = "done"]
                  ELSE IF get_adjusted_payment_date(loop, next_payment) > loop.month_end
                  THEN [loop EXCEPT !.checks = loop.checks + 1, !.pc = "done"]
                  ELSE [loop EXCEPT !.checks = loop.checks + 1,
                                    !.check_date = next_payment + 1]
    /\ UNCHANGED <<schedVars, recVars, shareVars, adjVars, queryVars>>

NextTerminates ==
    SkipMonth \/ AllocateMonth \/ Return \/ WhileStep \/ BillScanStep \/ IncomeScanStep

SpecTerminates == InitTerminates /\ [][NextTerminates]_vars /\ WF_vars(NextTerminates)

----------------------------------------------------------------------------
(* what the claims speak of *)

\* the bill months the projection has gone through, as indices of
\* monthly_bill_totals, and those of them that were allocated
Projected == 1..Len(monthly_bill_totals)
Allocated == { k \in Projected : monthly_bill_totals[k].total_bills > 0
                                 /\ Len(state.payees) > 0 }
Roster == 1..Len(state.payees)

\* the calendar month before bill month k, written out: <<month, year>>
FundingMonth(k) ==
    LET t == monthly_bill_totals[k]
    IN  IF t.month = 1 THEN <<12, t.year - 1>> ELSE <<t.month - 1, t.year>>

\* the income events of payee i in the funding month of bill month k
IncomeEvents(i, k) ==
    LET f == FundingMonth(k)
    IN  get_payee_income_in_month(state.payees[i], date(f[2], f[1], 1),
                                  date(f[2], f[1], monthrange(f[2], f[1])))

\* the schedule items of payee i for bill month k, in the order emitted
ItemsOf(i, k) ==
    SelectSeq(schedule_items,
              LAMBDA it : /\ it.payee_name = state.payees[i].name
                          /\ it.bill_month = monthly_bill_totals[k].month
                          /\ it.bill_year = monthly_bill_totals[k].year)

ItemsFor(k) ==
    SelectSeq(schedule_items,
              LAMBDA it : /\ it.bill_month = monthly_bill_totals[k].month
                          /\ it.bill_year = monthly_bill_totals[k].year)

Contributions(items) == [j \in 1..Len(items) |-> items[j].required_contribution]

\* per_payee_responsibility of bill month k: the month's total over the roster
Responsibility(k) == Rat(monthly_bill_totals[k].total_bills, Len(state.payees))

\* the weekend shortfall of payee i in the funding month of bill month k
Shortfall(i, k) ==
    LET f == FundingMonth(k)
    IN  calculate_weekend_adjustment_shortfall(state.payees[i], f[1], f[2],
            Responsibility(k), sum_amounts(IncomeEvents(i, k)))

\* payments of payee i that a weekend shift moved out of the funding month of k
ShiftedOut(i, k) ==
    LET f == FundingMonth(k)
    IN  check_for_weekend_adjusted_payments(state.payees[i], f[1], f[2])

IsPlaceholder(it) == it.income_amount = 0 /\ ~it.is_before_cutoff

----------------------------------------------------------------------------
(* the claims, checked under Spec *)

\* C1: for every allocated bill month and every payee with at least one income
\* event in the funding month, the payee's required contributions for the month
\* sum to per_payee_responsibility plus the payee's weekend shortfall, whatever
\* mix of custom percentages the events declare.
C1_Conservation ==
    \A k \in Allocated : \A i \in Roster :
        IncomeEvents(i, k) # <<>> =>
            RSum(Contributions(ItemsOf(i, k)))
                = RAdd(Responsibility(k), Shortfall(i, k))

\* C2: a payee with two or more income events in the funding month, each
\* declaring 100 %, contributes its responsibility once, not once per event.
C2_HundredPercentOnce ==
    \A k \in Allocated : \A i \in Roster :
        LET events == IncomeEvents(i, k)
        IN  ( /\ Len(events) >= 2
              /\ \A j \in 1..Len(events) :
                     events[j].schedule.contribution_percentage = 100
              /\ ShiftedOut(i, k) = <<>> )
            => RSum(Contributions(ItemsOf(i, k))) = Responsibility(k)

\* C3: when the custom percentages of a payee's income events sum to P > 100,
\* each custom event contributes responsibility * percentage / P and the
\* payee's total is the responsibility.  (The items of the custom events are
\* the payee's first items of the month, in the order of the events.)
C3_NormalizedOver100 ==
    \A k \in Allocated : \A i \in Roster :
        LET events == IncomeEvents(i, k)
            custom == SelectSeq(events, IsCustom)
            P      == sum_percentages(custom)
            items  == ItemsOf(i, k)
        IN  (P > 100 /\ ShiftedOut(i, k) = <<>>)
            => /\ \A j \in 1..Len(custom) :
                      items[j].required_contribution
                          = RMul(Responsibility(k),
                                 Rat(custom[j].schedule.contribution_percentage, P))
               /\ RSum(Contributions(items)) = Responsibility(k)

\* no pay schedule of the roster declares a contribution_percentage
NoCustomPercentage ==
    \A i \in Roster : \A j \in 1..Len(state.payees[i].pay_schedules) :
        state.payees[i].pay_schedules[j].contribution_percentage = NoPct

\* C4: with no custom percentage and no payment shifted out of the funding
\* month, every payee's items for an allocated bill month sum to T / N, however
\* many income events the payee has, and all items of the month sum to T.
C4_EqualSplit ==
    NoCustomPercentage =>
        \A k \in Allocated :
            (\A i \in Roster : ShiftedOut(i, k) = <<>>)
            => /\ \A i \in Roster :
                      RSum(Contributions(ItemsOf(i, k)))
                          = Rat(monthly_bill_totals[k].total_bills, Len(state.payees))
               /\ RSum(Contributions(ItemsFor(k)))
                      = R(monthly_bill_totals[k].total_bills)

\* C4 witness: two payees, the first with several income events of different
\* amounts in the funding month, allocated without custom percentage or shift
C4_Witness ==
    /\ NoCustomPercentage
    /\ Len(state.payees) = 2
    /\ \E k \in Allocated :
          /\ \A i \in Roster : ShiftedOut(i, k) = <<>>
          /\ LET events == IncomeEvents(1, k)
             IN  /\ Len(events) >= 3
                 /\ \E a, b \in 1..Len(events) :
                        events[a].schedule.amount # events[b].schedule.amount
                 /\ Len(ItemsOf(1, k)) = Len(events)
          /\ Len(ItemsOf(2, k)) = 1

\* C5: a payee whose start_date lies after the start of the bill month gets no
\* schedule items for that month and does not count in the divisor, so the
\* other payees share the whole total.
C5_InactivePayeeExcluded ==
    \A k \in Allocated :
        LET t      == monthly_bill_totals[k]
            active == { i \in Roster :
                          \/ state.payees[i].start_date = NoDate
                          \/ state.payees[i].start_date <= date(t.year, t.month, 1) }
        IN  \A i \in Roster :
                IF i \in active
                THEN \/ IncomeEvents(i, k) # <<>>
                     \/ RSum(Contributions(ItemsOf(i, k)))
                            = Rat(t.total_bills, Cardinality(active))
                ELSE ItemsOf(i, k) = <<>>

\* C6: in an allocated bill month a payee without income in the funding month
\* gets exactly one placeholder (income 0, the full responsibility, "No income
\* in previous month", not before cutoff, dated at the bill month's cutoff
\* date), and a payee with income gets none.
C6_Placeholder ==
    \A k \in Allocated : \A i \in Roster :
        LET t     == monthly_bill_totals[k]
            items == ItemsOf(i, k)
        IN  IF IncomeEvents(i, k) = <<>>
            THEN /\ Len(items) = 1
                 /\ items[1].income_amount = 0
                 /\ items[1].required_contribution = Rat(t.total_bills, Len(state.payees))
                 /\ items[1].schedule_description = "No income in previous month"
                 /\ items[1].is_before_cutoff = FALSE
                 /\ items[1].payment_date
                        = get_cutoff_date(state.schedule_options, t.month, t.year)
                 /\ month_of(items[1].payment_date) \in {t.month, (t.month % 12) + 1}
            ELSE \A j \in 1..Len(items) : ~IsPlaceholder(items[j])

\* C6 witness: one payee with income and one without, in the same bill month
C6_Witness ==
    \E k \in Allocated :
        /\ Len(state.payees) = 2
        /\ IncomeEvents(1, k) # <<>> /\ Len(ItemsOf(1, k)) >= 2
        /\ IncomeEvents(2, k) = <<>> /\ Len(ItemsOf(2, k)) = 1
        /\ IsPlaceholder(ItemsOf(2, k)[1])

\* C7: every non-placeholder item of bill month M is dated in the calendar
\* month before M, December of the previous year when M is January.
C7_FundingMonthOnly ==
    \A n \in 1..Len(schedule_items) :
        LET it == schedule_items[n]
        IN  ~IsPlaceholder(it) =>
                IF it.bill_month = 1
                THEN month_of(it.payment_date) = 12
                     /\ year_of(it.payment_date) = it.bill_year - 1
                ELSE month_of(it.payment_date) = it.bill_month - 1
                     /\ year_of(it.payment_date) = it.bill_year

\* C7 witness: a January bill month funded by several payments of one payee,
\* all dated in December of the year before
C7_Witness ==
    \E n, m \in 1..Len(schedule_items) :
        LET it == schedule_items[n]
            ot == schedule_items[m]
        IN  /\ ~IsPlaceholder(it) /\ ~IsPlaceholder(ot)
            /\ it.bill_month = 1 /\ it.bill_year = 2025
            /\ ot.bill_month = 1 /\ ot.bill_year = 2025
            /\ it.payee_name = ot.payee_name
            /\ it.payment_date < ot.payment_date
            /\ year_of(it.payment_date) = 2024 /\ month_of(it.payment_date) = 12

\* d is a date the recurrence produces: the next due date after the day before
IsOccurrence(r, d) == next_due(r, d - 1) = d

\* the bill's occurrences dated in the month
OccurrencesInMonth(bill, month, year) ==
    IF bill_recurrence(bill) = NoRecurrence THEN 0
    ELSE Cardinality({ d \in date(year, month, 1)
                              .. date(year, month, monthrange(year, month)) :
                         IsOccurrence(bill_recurrence(bill), d) })

RECURSIVE ExpectedBillTotal(_, _, _)
ExpectedBillTotal(bills, month, year) ==
    IF bills = <<>> THEN 0
    ELSE bill_amount(Head(bills)) * OccurrencesInMonth(Head(bills), month, year)
         + ExpectedBillTotal(Tail(bills), month, year)

\* C8: the monthly bill total is the sum over the bills of amount times the
\* number of the bill's occurrences in the month, also for bills with many
\* occurrences in a month (weekly 5, every 2 days 15 or 16, daily 28 to 31).
C8_BillTotalCountsOccurrences ==
    \A k \in Projected :
        monthly_bill_totals[k].total_bills
            = ExpectedBillTotal(state.bills, monthly_bill_totals[k].month,
                                monthly_bill_totals[k].year)

\* the weekend-adjusted dates of the schedule's occurrences that lie in the
\* window; a shift moves a date by at most two days, so the occurrences are
\* looked for from two days before the window to two days after it
AdjustedDatesInWindow(schedule, window_start, window_end) ==
    { a \in { get_adjusted_payment_date(schedule, d) :
                d \in { x \in (window_start - 2)..(window_end + 2) :
                          IsOccurrence(schedule.recurrence, x) } } :
        a >= window_start /\ a <= window_end }

\* the dates get_payee_income_in_month returned for the schedule
ReturnedDates(income, schedule) ==
    { income[j].payment_date : j \in { x \in 1..Len(income) :
                                         income[x].schedule = schedule } }

\* C15: for each pay schedule, get_payee_income_in_month returns exactly the
\* weekend-adjusted dates of the schedule's occurrences whose adjusted date
\* lies in the window: also those of a Saturday or Sunday just before the
\* window that moves to a Monday inside it and of one just after the window
\* that moves to a Friday inside it, and not those inside the window whose
\* adjusted date is outside.
C15_IncomeByAdjustedDate ==
    \A k \in Allocated : \A i \in Roster :
        \A j \in 1..Len(state.payees[i].pay_schedules) :
            \A f \in {FundingMonth(k)} :
                ReturnedDates(IncomeEvents(i, k), state.payees[i].pay_schedules[j])
                  = AdjustedDatesInWindow(state.payees[i].pay_schedules[j],
                                          date(f[2], f[1], 1),
                                          date(f[2], f[1], monthrange(f[2], f[1])))

\* the dates returned for the j-th pay schedule of a payee whose pay schedules
\* differ from one another, in the order returned
DatesOfSchedule(income, payee, j) ==
    SelectSeq(income, LAMBDA e : e.schedule = payee.pay_schedules[j])

DistinctSchedules(payee) ==
    \A a, b \in 1..Len(payee.pay_schedules) :
        a # b => payee.pay_schedules[a] # payee.pay_schedules[b]

StrictlyIncreasingDates(events) ==
    \A a, b \in 1..Len(events) : a < b => events[a].payment_date < events[b].payment_date

\* C16: the list get_payee_income_in_month returns never holds the same (pay
\* schedule, adjusted date) pair twice, and the dates of one schedule appear in
\* strictly increasing order.
C16_NoDuplicateDates ==
    \A k \in Allocated : \A i \in Roster :
        DistinctSchedules(state.payees[i])
        => \A income \in {IncomeEvents(i, k)} :
               \A j \in 1..Len(state.payees[i].pay_schedules) :
                   StrictlyIncreasingDates(DatesOfSchedule(income, state.payees[i], j))

\* two occurrences of one schedule adjusted to the same date of the funding
\* month (a Saturday and a Sunday moved to their Friday), returned once
C16_Witness ==
    \E k \in Allocated : \E i \in Roster :
        /\ DistinctSchedules(state.payees[i])
        /\ \E j \in 1..Len(state.payees[i].pay_schedules) :
            \E a \in ReturnedDates(IncomeEvents(i, k), state.payees[i].pay_schedules[j]) :
                /\ IsOccurrence(state.payees[i].pay_schedules[j].recurrence, a + 1)
                /\ IsOccurrence(state.payees[i].pay_schedules[j].recurrence, a + 2)
                /\ get_adjusted_payment_date(state.payees[i].pay_schedules[j], a + 1) = a
                /\ get_adjusted_payment_date(state.payees[i].pay_schedules[j], a + 2) = a

\* the k-th month of a projection started at (start_month, start_year), counted
\* in months since year 0
ProjectedMonthIndex(k) == start_year * 12 + (start_month - 1) + (k - 1)

\* C21: the projection records exactly one MonthlyBillTotal for each of the
\* months_ahead projected months, in chronological order and with the year
\* rolling over after December, months with a zero total included; schedule
\* items exist only for months with a total above 0 and at least one payee, so
\* a state without bills or without payees returns no schedule item.
C21_OneTotalPerMonth ==
    /\ Len(monthly_bill_totals) = month_offset
    /\ pc = "done" => Len(monthly_bill_totals) = months_ahead
    /\ \A k \in Projected :
          /\ monthly_bill_totals[k].month = (ProjectedMonthIndex(k) % 12) + 1
          /\ monthly_bill_totals[k].year = ProjectedMonthIndex(k) \div 12
    /\ \A j \in 1..Len(schedule_items) :
          \E k \in Allocated :
              /\ schedule_items[j].bill_month = monthly_bill_totals[k].month
              /\ schedule_items[j].bill_year = monthly_bill_totals[k].year
    /\ (state.bills = <<>> \/ state.payees = <<>>) => schedule_items = <<>>

\* a projection over December 2024 and January 2025 that has returned: nothing
\* due in December, bills allocated in January
C21_Witness ==
    /\ pc = "done"
    /\ Len(monthly_bill_totals) = 2
    /\ monthly_bill_totals[1].month = 12 /\ monthly_bill_totals[1].year = 2024
    /\ monthly_bill_totals[1].total_bills = 0
    /\ monthly_bill_totals[2].month = 1 /\ monthly_bill_totals[2].year = 2025
    /\ monthly_bill_totals[2].total_bills > 0
    /\ schedule_items # <<>>

\* what the bill costs on day d: the amount of the price-history entry in force
\* on d when that entry's recurrence falls on d, 0 otherwise
PricedOn(bill, d) ==
    IF get_price_info_for_date(bill, d).recurrence # NoRecurrence
       /\ IsOccurrence(get_price_info_for_date(bill, d).recurrence, d)
    THEN get_price_info_for_date(bill, d).amount ELSE 0

RECURSIVE PricedBetween(_, _, _)
PricedBetween(bill, first, last) ==
    IF first > last THEN 0
    ELSE PricedOn(bill, first) + PricedBetween(bill, first + 1, last)

RECURSIVE PricedBillTotal(_, _, _)
PricedBillTotal(bills, month, year) ==
    IF bills = <<>> THEN 0
    ELSE PricedBetween(Head(bills), date(year, month, 1),
                       date(year, month, monthrange(year, month)))
         + PricedBillTotal(Tail(bills), month, year)

HasPriceChanges ==
    /\ state.bills # <<>>
    /\ \A n \in 1..Len(state.bills) : Len(state.bills[n].price_history) > 1

\* C22: for bills with several price-history entries, the total of a month uses,
\* for each date of the month, the amount and recurrence of the entry with the
\* latest start date on or before that date, so that dates before a later
\* entry's start are charged the earlier entry's amount.
C22_PriceInForceOnDate ==
    HasPriceChanges =>
        \A k \in Projected :
            monthly_bill_totals[k].total_bills
                = PricedBillTotal(state.bills, monthly_bill_totals[k].month,
                                  monthly_bill_totals[k].year)

\* income events in the order of their items: those with a custom percentage
\* first, then the others
EventsInItemOrder(events) == SelectSeq(events, IsCustom) \o SelectSeq(events, IsNotCustom)

\* the part of the responsibility that event e is charged when the custom
\* percentages total P: p % of it for a custom event, an income-proportional
\* part of the remaining (100 - P) % for an event among the others
BaseContribution(e, responsibility, P, other_income) ==
    IF IsCustom(e)
    THEN RMul(responsibility, Rat(e.schedule.contribution_percentage, 100))
    ELSE RMul(RMul(responsibility, Rat(100 - P, 100)),
              Rat(e.schedule.amount, other_income))

\* the items are those of the events, each charged its part of the
\* responsibility and its income-proportional part of the shortfall
ChargedByPercentage(items, events, responsibility, shortfall) ==
    /\ Len(items) = Len(events)
    /\ \E P \in {sum_percentages(SelectSeq(events, IsCustom))},
          other_income \in {sum_amounts(SelectSeq(events, IsNotCustom))},
          total_income \in {sum_amounts(events)},
          ordered \in {EventsInItemOrder(events)} :
          \A j \in 1..Len(ordered) :
              items[j].required_contribution
                = RAdd(BaseContribution(ordered[j], responsibility, P, other_income),
                       RMul(shortfall, Rat(ordered[j].schedule.amount, total_income)))

\* the payee's income events declare custom percentages that total at most 100
DeclaresAtMost100(events) ==
    /\ SelectSeq(events, IsCustom) # <<>>
    /\ sum_percentages(SelectSeq(events, IsCustom)) <= 100

\* C25 as stated: when the custom percentages of a payee's funding-month income
\* events total P <= 100, each custom event's required_contribution is
\* responsibility * p / 100 (0 for p = 0, the item still emitted) and the events
\* without a custom percentage receive the remaining (100 - P) % in proportion
\* to their income among the non-custom events.
C25_CustomThenRemaining ==
    \A k \in Allocated : \A i \in Roster :
        \E events \in {IncomeEvents(i, k)} :
            DeclaresAtMost100(events) =>
                ChargedByPercentage(ItemsOf(i, k), events, Responsibility(k), R(0))

\* C25 amended: as C25, each event's required_contribution being that part of
\* the responsibility plus the event's income-proportional part of the payee's
\* weekend shortfall.
C25_CustomThenRemainingPlusShortfall ==
    \A k \in Allocated : \A i \in Roster :
        \E events \in {IncomeEvents(i, k)} :
            DeclaresAtMost100(events) =>
                ChargedByPercentage(ItemsOf(i, k), events, Responsibility(k),
                                    Shortfall(i, k))

\* a returned projection with a payee who has a custom event of 60 %, events
\* without a custom percentage and a weekend shortfall, and an item per event
C25_Witness ==
    /\ pc = "done"
    /\ \E k \in Allocated : \E i \in Roster :
          \E events \in {IncomeEvents(i, k)} :
              /\ sum_percentages(SelectSeq(events, IsCustom)) = 60
              /\ SelectSeq(events, IsNotCustom) # <<>>
              /\ RPos(Shortfall(i, k))
              /\ Len(ItemsOf(i, k)) = Len(events)

\* the days of the month on which the schedule is naturally due and from which
\* its weekend adjustment leaves the month
MovedOutOf(schedule, month, year) ==
    { d \in date(year, month, 1) .. date(year, month, monthrange(year, month)) :
        /\ schedule.recurrence # NoRecurrence
        /\ IsOccurrence(schedule.recurrence, d)
        /\ month_of(get_adjusted_payment_date(schedule, d)) # month }

MovedOutOfMonth(schedule, k) ==
    MovedOutOf(schedule, monthly_bill_totals[k].month, monthly_bill_totals[k].year)

\* C26: weekend_adjustments holds a record for every income occurrence of a
\* payee whose natural date lies in a projected month with bills due and whose
\* weekend shift moves it into another calendar month, whether or not the payee
\* has income in the funding month; and every record is such an occurrence, its
\* original_date a Saturday or Sunday, its adjusted_date a weekday of another
\* month.
C26_WeekendAdjustmentsComplete ==
    /\ \A k \in Allocated : \A i \in Roster :
          \A n \in 1..Len(state.payees[i].pay_schedules) :
              \A d \in MovedOutOfMonth(state.payees[i].pay_schedules[n], k) :
                  \E w \in 1..Len(weekend_adjustments) :
                      /\ weekend_adjustments[w].payee_name = state.payees[i].name
                      /\ weekend_adjustments[w].original_date = d
                      /\ weekend_adjustments[w].adjusted_date
                           = get_adjusted_payment_date(state.payees[i].pay_schedules[n], d)
    /\ \A w \in 1..Len(weekend_adjustments) :
          /\ weekday(weekend_adjustments[w].original_date) >= 5
          /\ weekday(weekend_adjustments[w].adjusted_date) < 5
          /\ month_of(weekend_adjustments[w].adjusted_date)
               # month_of(weekend_adjustments[w].original_date)
          /\ \E k \in Allocated : \E i \in Roster :
                /\ weekend_adjustments[w].payee_name = state.payees[i].name
                /\ \E n \in 1..Len(state.payees[i].pay_schedules) :
                       weekend_adjustments[w].original_date
                         \in MovedOutOfMonth(state.payees[i].pay_schedules[n], k)

\* what the excluded payment of the schedule would have been charged
ExcludedShare(schedule, responsibility, total_income) ==
    IF schedule.contribution_percentage # NoPct
    THEN RMul(responsibility, Rat(schedule.contribution_percentage, 100))
    ELSE RMul(responsibility, Rat(schedule.amount, total_income))

\* the excluded share of every schedule, once for each of its occurrences that
\* left the month
RECURSIVE OncePerOccurrence(_, _, _, _, _)
OncePerOccurrence(schedules, month, year, responsibility, total_income) ==
    IF schedules = <<>> THEN R(0)
    ELSE RAdd(RMul(R(Cardinality(MovedOutOf(Head(schedules), month, year))),
                   ExcludedShare(Head(schedules), responsibility, total_income)),
              OncePerOccurrence(Tail(schedules), month, year, responsibility,
                                total_income))

\* no two records of the list share the schedule and the original date
ReportedOnce(found) ==
    \A a, b \in 1..Len(found) :
        (found[a].schedule = found[b].schedule
         /\ found[a].original_date = found[b].original_date) => a = b

\* C29: check_for_weekend_adjusted_payments reports each natural income
\* occurrence that a weekend shift moved out of the month at most once, and the
\* weekend shortfall of a payee adds the excluded payment's share exactly once
\* per such occurrence, also when the occurrence is the schedule's start date.
C29_ShiftedOutReportedOnce ==
    \A k \in Allocated : \A i \in Roster :
        (IncomeEvents(i, k) # <<>> /\ DistinctSchedules(state.payees[i])) =>
            /\ ReportedOnce(ShiftedOut(i, k))
            /\ Shortfall(i, k)
                 = OncePerOccurrence(state.payees[i].pay_schedules, FundingMonth(k)[1],
                                     FundingMonth(k)[2], Responsibility(k),
                                     sum_amounts(IncomeEvents(i, k)))

\* <<month, year>> of the k-th projected month
ProjectedMonth(k) == <<(ProjectedMonthIndex(k) % 12) + 1, ProjectedMonthIndex(k) \div 12>>

\* monthly_bill_totals of calculate_proportional_contributions(month, year, 1)
SingleMonthTotals(month, year) ==
    <<[month |-> month, year |-> year,
       total_bills |-> calculate_monthly_bill_total(month, year)]>>

\* schedule_items of calculate_proportional_contributions(month, year, 1)
SingleMonthItems(month, year) ==
    IF calculate_monthly_bill_total(month, year) <= 0 \/ Len(state.payees) = 0 THEN <<>>
    ELSE InMonth(all_payee_items(state.payees,
                     Rat(calculate_monthly_bill_total(month, year), Len(state.payees)),
                     get_cutoff_date(state.schedule_options, month, year),
                     adjust_month_year(month - 1, year)[1],
                     adjust_month_year(month - 1, year)[2]),
                 month, year)

\* the single-month projections of the projected months k..n, one after another
RECURSIVE SingleMonthsTotals(_, _)
SingleMonthsTotals(k, n) ==
    IF k > n THEN <<>>
    ELSE SingleMonthTotals(ProjectedMonth(k)[1], ProjectedMonth(k)[2])
         \o SingleMonthsTotals(k + 1, n)

RECURSIVE SingleMonthsItems(_, _)
SingleMonthsItems(k, n) ==
    IF k > n THEN <<>>
    ELSE SingleMonthItems(ProjectedMonth(k)[1], ProjectedMonth(k)[2])
         \o SingleMonthsItems(k + 1, n)

\* the place of the payee of that name in state.payees
PayeeIndex(name) == CHOOSE i \in Roster : state.payees[i].name = name

\* C30: for a scheduler without a projection start, the bill totals and the
\* schedule items of a projection of n months from (m, y) are, month by month
\* and in the same order, those of the n single-month projections started at
\* each successive month, the payees in input order within each month.
C30_WindowIndependent ==
    (pc = "done" /\ projection_start_month = 0) =>
        /\ monthly_bill_totals = SingleMonthsTotals(1, months_ahead)
        /\ schedule_items = SingleMonthsItems(1, months_ahead)
        /\ \A a, b \in 1..Len(schedule_items) :
              (/\ a < b
               /\ schedule_items[a].bill_month = schedule_items[b].bill_month
               /\ schedule_items[a].bill_year = schedule_items[b].bill_year)
              => PayeeIndex(schedule_items[a].payee_name)
                   <= PayeeIndex(schedule_items[b].payee_name)

\* a returned projection over December 2024 and January 2025 with two payees
\* and items for both months
C30_Witness ==
    /\ pc = "done"
    /\ months_ahead = 2
    /\ Len(state.payees) = 2
    /\ \E a, b \in 1..Len(schedule_items) :
          /\ schedule_items[a].bill_month = 12 /\ schedule_items[a].bill_year = 2024
          /\ schedule_items[b].bill_month = 1 /\ schedule_items[b].bill_year = 2025
          /\ schedule_items[a].payee_name # schedule_items[b].payee_name

----------------------------------------------------------------------------
(* the claims, checked under SpecRecurrence *)

\* the months a calendar recurrence of this unit advances by
CalendarStepMonths(r) == IF r.interval = "quarterly" THEN 3 ELSE 12

\* d is the start date advanced by a whole number of steps of `step` months
\* (the start's day of month, or the month's last day where that day is missing)
OnCalendarGrid(r, d, step) ==
    LET months == (year_of(d) - year_of(r.start)) * 12
                  + month_of(d) - month_of(r.start)
    IN  /\ months >= 0
        /\ months % step = 0
        /\ d = date_or_last_day(year_of(d), month_of(d), day_of(r.start))

\* C9: for a calendar recurrence with unit quarterly (yearly), every date
\* next_due returns is the start date advanced by a multiple of 3 (12) months,
\* and no such date lies between the query date and the date returned (that
\* the date returned is later than the query date is C10).
C9_QuarterlyYearlyGrid ==
    (/\ after # NoDate
     /\ rec.kind = "calendar"
     /\ rec.interval \in {"quarterly", "yearly"}
     /\ due # NoDate)
    => /\ OnCalendarGrid(rec, due, CalendarStepMonths(rec))
       /\ \A d \in (after + 1)..(due - 1) :
              ~OnCalendarGrid(rec, d, CalendarStepMonths(rec))

\* C10: for every recurrence and query date, next_due(after) is NONE or a date
\* strictly later than after, also when after is the recurrence's start date.
C10_StrictlyLater ==
    after # NoDate => (due = NoDate \/ due > after)

\* C11: next_due never returns a date earlier than the recurrence's start, and
\* it is monotone in its argument: of two successive queries after <= after'
\* whose results are both defined, the second result is not the earlier one.
C11_MonotoneFromStart ==
    [][(due' # NoDate)
       => /\ due' >= rec.start
          /\ (after # NoDate /\ due # NoDate /\ after <= after') => due <= due']_vars

\* the recurrence is stepped in months: interval/monthly, or calendar with the
\* monthly unit (the default unit) and any `every`
SteppedInMonths(r) ==
    \/ r.kind = "interval" /\ r.interval = "monthly" /\ r.every >= 1
    \/ r.kind = "calendar" /\ r.interval \in {"monthly", NoInterval}

\* C12: every occurrence of a recurrence stepped in months falls on day
\* min(start's day of month, last day of the occurrence's month): the day is
\* derived from the start's day at every step, so the start's day comes back
\* after a short month (2024-01-31, 2024-02-29, 2024-03-31, 2024-04-30).
C12_DayFromStart ==
    (after # NoDate /\ due # NoDate /\ SteppedInMonths(rec))
    => due = date_or_last_day(year_of(due), month_of(due), day_of(rec.start))

\* the period of an interval recurrence in days: every x (1, 7, 91, 365)
PeriodDays(r) ==
    r.every * (CASE r.interval = "daily" -> 1
                 [] r.interval = "weekly" -> 7
                 [] r.interval = "quarterly" -> 91
                 [] r.interval = "yearly" -> 365)

\* C13: for an interval recurrence with unit daily, weekly, quarterly or yearly
\* and every >= 1, next_due(after) is the start when after < start, and for
\* after > start it is start + k * P for the smallest k >= 1 that gives a date
\* later than after (a recurrence with an end date answers NONE instead of a
\* date after its end, and only then).
C13_IntervalStep ==
    (/\ after # NoDate
     /\ rec.kind = "interval"
     /\ rec.interval \in {"daily", "weekly", "quarterly", "yearly"}
     /\ rec.every >= 1)
    => /\ after < rec.start => due = rec.start
       /\ (after > rec.start /\ due # NoDate)
            => /\ (due - rec.start) % PeriodDays(rec) = 0
               /\ due - rec.start >= PeriodDays(rec)
               /\ due > after
               /\ due - PeriodDays(rec) <= after
       /\ (after > rec.start /\ due = NoDate)
            => /\ rec.end # NoDate
               /\ rec.start + ((after - rec.start) \div PeriodDays(rec) + 1)
                                 * PeriodDays(rec) > rec.end

\* a weekly recurrence queried at least two periods after its start
C13_Witness ==
    /\ rec.kind = "interval" /\ rec.interval = "weekly" /\ rec.every = 2
    /\ after > rec.start + 2 * PeriodDays(rec)
    /\ due # NoDate /\ due >= rec.start + 3 * PeriodDays(rec)

\* C14: for a recurrence with an end date, next_due never returns a date later
\* than the end: when the next occurrence after the query date falls after the
\* end, the answer is NONE.
C14_NeverAfterEnd ==
    (after # NoDate /\ rec.end # NoDate /\ due # NoDate) => due <= rec.end

----------------------------------------------------------------------------
(* the claims, checked under SpecShares *)

\* the payees of the roster that the bill does not exclude
EligibleNames ==
    { share_payees[i].name : i \in { x \in 1..Len(share_payees) :
                                        share_payees[x].name \notin share_bill.share.exclude } }

RECURSIVE SumOver(_, _)
SumOver(f, S) ==
    IF S = {} THEN R(0)
    ELSE Only({ RAdd(f[n], SumOver(f, S \ {n})) : n \in {CHOOSE x \in S : TRUE} })

\* C17: whenever at least one payee is eligible for the bill, the percentages
\* calculate_payee_shares returns sum to 100 (within 0.01), for every
\* combination of custom percentages, default percentages and payees with
\* neither, also when every eligible payee has a custom percentage and when
\* the custom percentages total 100 or more.
C17_SharesSumTo100 ==
    (shares.called /\ EligibleNames # {})
    => /\ shares.raised = ""
       /\ RLe(Rat(9999, 100), SumOver(shares.result, DOMAIN shares.result))
       /\ RLe(SumOver(shares.result, DOMAIN shares.result), Rat(10001, 100))

\* C18: a payee named in the bill's exclude list never appears in the map
\* calculate_payee_shares returns, also when the payee has a custom percentage
\* of the bill or a default percentage; when every payee of the roster is
\* excluded the call returns the empty map.
C18_ExcludedNeverCharged ==
    shares.called
    => /\ DOMAIN shares.result \cap share_bill.share.exclude = {}
       /\ EligibleNames = {} => (shares.raised = "" /\ DOMAIN shares.result = {})

\* an excluded payee with a custom percentage and a default percentage, in a
\* call that returned shares for the others
C18_Witness ==
    /\ shares.called /\ shares.raised = "" /\ DOMAIN shares.result # {}
    /\ \E i \in 1..Len(share_payees) :
          /\ share_payees[i].name \in share_bill.share.exclude
          /\ share_payees[i].name \in DOMAIN share_bill.share.custom
          /\ share_payees[i].default_share_percentage \notin {NoAttr, NoPct}

----------------------------------------------------------------------------
(* the claims, checked under SpecAdjust *)

\* C19: get_adjusted_payment_date returns a Monday to Friday date unchanged;
\* a Saturday or Sunday becomes the Friday just before it under
\* last_working_day and the Monday just after it under next_working_day; the
\* result is never a Saturday or Sunday and is at most 2 days from the input.
C19_WeekendAdjustment ==
    adj_payment_date # NoDate
    => /\ weekday(adj_payment_date) < 5 => adj_result = adj_payment_date
       /\ (weekday(adj_payment_date) >= 5
            /\ adj_schedule.weekend_adjustment = "last_working_day")
           => /\ weekday(adj_result) = 4
              /\ adj_result < adj_payment_date
              /\ \A d \in (adj_result + 1)..(adj_payment_date - 1) : weekday(d) # 4
       /\ (weekday(adj_payment_date) >= 5
            /\ adj_schedule.weekend_adjustment = "next_working_day")
           => /\ weekday(adj_result) = 0
              /\ adj_result > adj_payment_date
              /\ \A d \in (adj_payment_date + 1)..(adj_result - 1) : weekday(d) # 0
       /\ weekday(adj_result) < 5
       /\ adj_result - adj_payment_date \in -2..2

\* a Saturday moved two days forward to its Monday
C19_Witness ==
    /\ adj_payment_date # NoDate
    /\ weekday(adj_payment_date) = 5
    /\ adj_schedule.weekend_adjustment = "next_working_day"
    /\ adj_result = adj_payment_date + 2

\* C20: weekend adjustment is idempotent: adjusting the result of an adjustment
\* with the same strategy gives that result again.
C20_Idempotent ==
    [][(adj_payment_date # NoDate /\ adj_payment_date' = adj_result)
       => adj_result' = adj_result]_vars

\* an adjusted date adjusted again: a Friday that is the adjusted date of the
\* Saturday after it, given back unchanged
C20_Witness ==
    /\ adj_payment_date # NoDate
    /\ weekday(adj_payment_date) = 4
    /\ get_adjusted_payment_date(adj_schedule, adj_payment_date + 1) = adj_payment_date
    /\ adj_result = adj_payment_date

----------------------------------------------------------------------------
(* the claims, checked under SpecQuery *)

\* <<year, month>> a is not after <<year, month>> b
MonthNotAfter(a, b) == a[1] < b[1] \/ (a[1] = b[1] /\ a[2] <= b[2])

\* C23: is_active_for_month(year, month) is false for every month before the
\* month that contains the payee's start_date and true for the month that
\* contains it and for every later month, whatever the day of start_date; a
\* payee without a start_date is active for every month.
C23_ActiveFromStartMonth ==
    query.method = "is_active_for_month" =>
        query.result
          = (\/ state.payees[query.payee].start_date = NoDate
             \/ MonthNotAfter(<<year_of(state.payees[query.payee].start_date),
                                month_of(state.payees[query.payee].start_date)>>,
                              <<query.year, query.month>>))

\* the cutoff day of the options clamped to the month's length
ClampedCutoff(options, month, year) ==
    date(year, month,
         IF options.cutoff_day > monthrange(year, month) THEN monthrange(year, month)
         ELSE options.cutoff_day)

\* C24: get_cutoff_date(month, year), for cutoff_day in 1..31, is the date with
\* day min(cutoff_day, days in the month), moved from a Saturday or Sunday to
\* the Friday before (last_working_day) or the Monday after (next_working_day);
\* the result is always a weekday.
C24_CutoffOnWeekday ==
    query.method = "get_cutoff_date" =>
        \E d \in {ClampedCutoff(state.schedule_options, query.month, query.year)} :
            /\ weekday(query.result) < 5
            /\ weekday(d) < 5 => query.result = d
            /\ (weekday(d) >= 5
                 /\ state.schedule_options.weekend_adjustment = "last_working_day")
               => (query.result < d /\ d - query.result <= 2
                   /\ weekday(query.result) = 4)
            /\ (weekday(d) >= 5
                 /\ state.schedule_options.weekend_adjustment = "next_working_day")
               => (query.result > d /\ query.result - d <= 2
                   /\ weekday(query.result) = 0)

\* cutoff day 31 in February 2024: Thursday the 29th; and in March 2024 with
\* next_working_day: Sunday the 31st moved to Monday 1 April
C24_Witness ==
    /\ query.method = "get_cutoff_date"
    /\ state.schedule_options
         = [cutoff_day |-> 31, weekend_adjustment |-> "next_working_day"]
    /\ query.month = 3 /\ query.year = 2024
    /\ query.result = date(2024, 4, 1)

\* the month is strictly before the projection start of the scheduler
BeforeProjectionStart(month, year) ==
    /\ projection_start_month # 0
    /\ ~MonthNotAfter(<<projection_start_year, projection_start_month>>, <<year, month>>)

\* C27: a scheduler created with a projection start month and year returns a
\* bill total of 0 for every month strictly before the projection start,
\* whatever bills are due then, and the ordinary total, the sum over the bills
\* due in the month, for the projection start month and every later month.
C27_ZeroBeforeProjectionStart ==
    (query.method = "calculate_monthly_bill_total" /\ projection_start_month # 0) =>
        query.result
          = (IF BeforeProjectionStart(query.month, query.year) THEN 0
             ELSE bills_total(state.bills,
                              get_month_boundaries(query.month, query.year)[1],
                              get_month_boundaries(query.month, query.year)[2]))

\* Rent is due on 15 March 2024, and a scheduler that starts in June 2024
\* answers 0 for March; the same scheduler answers 1200 for June
C27_Witness ==
    /\ query.method = "calculate_monthly_bill_total"
    /\ state.bills = <<Rent>>
    /\ projection_start_month = 6 /\ projection_start_year = 2024
    /\ \/ query.month = 3 /\ query.year = 2024 /\ query.result = 0
       \/ query.month = 6 /\ query.year = 2024 /\ query.result = 1200

----------------------------------------------------------------------------
(* the claims, checked under SpecTerminates *)

\* the projection has returned after months_ahead passes, or the loop has ended
Terminated ==
    \/ pc = "done" /\ month_offset = months_ahead
                   /\ Len(monthly_bill_totals) = months_ahead
    \/ loop.pc = "done"

\* C28: next_due terminates for every recurrence with every >= 1 and every
\* query date; calculate_proportional_contributions terminates after exactly
\* months_ahead passes of its month loop, each scan of a bill making at most 10
\* calls of next_due and each scan of a pay schedule at most 50, also when a
\* recurrence has every = 0.
C28_Terminates ==
    /\ [](loop.kind = "bill_scan" => loop.checks <= BillMaxChecks)
    /\ [](loop.kind = "income_scan" => loop.checks <= IncomeMaxChecks)
    /\ <>Terminated

\* the scan of a bill that is due every day has ended after its 10 calls
C28_Witness ==
    /\ loop.kind = "bill_scan"
    /\ loop.pc = "done"
    /\ loop.checks = BillMaxChecks
    /\ loop.recurrence.interval = "daily"

====
